---- MODULE Spec2Model ----
(***************************************************************************)
(* Rhythm timing, latency compensation and scoring engine of               *)
(* rhythm-game-modular: the metronome scheduler (js/modules/audio.js), the *)
(* SmartLatencyCompensator (smartLatency.js) and the beat matcher          *)
(* analyzeSimplePerformance (main game controller).                        *)
(*                                                                         *)
(* Time.  The game's tempi are 70, 100 and 140 BPM, so a beat lasts        *)
(* 60000/BPM ms = 6000/7, 600 or 3000/7 ms.  Every time in this module is  *)
(* an integer number of ticks of 1/7 ms, which makes the three beat        *)
(* intervals integers (6000, 4200, 3000) without rounding them.  Offsets   *)
(* kept by the compensator (baseCompensation, adaptiveOffset) stay in ms,  *)
(* as in the code, and are converted with Ms where they meet a time.       *)
(* Floating-point rounding of the browser clock is not modelled.           *)
(***************************************************************************)
EXTENDS Integers, Sequences, FiniteSets

VARIABLES
    \* ---- js/modules/audio.js (module-level state) ----
    metronomeTimer,      \* handle of the pending setTimeout, or Null
    metronomeBeat,       \* 0..3
    BEAT_INTERVAL,       \* ticks
    metronomeStartTime,  \* ticks
    expectedBeatTime,    \* ticks
    metronome,           \* TRUE when the metronome DOM element has been set
    \* ---- host (browser) ----
    now,                 \* performance.now(), ticks
    timers,              \* pending timeouts: set of [id, due]
    nextTimerId,         \* next handle setTimeout returns
    \* ---- observation of the scheduler (history variables) ----
    sched,               \* [ticks, late, fixed, stopped, starts, failure,
                         \*  tickExpected, overlap, silent, accent]
    \* ---- window.latencyCompensator ----
    latencyCompensator,  \* SmartLatencyCompensator fields + obs. counters
    feed,                \* the sample the player is currently producing
    \* ---- one matching pass ----
    session              \* [phase, pattern, taps, gameStartTime, ...]

vars == <<metronomeTimer, metronomeBeat, BEAT_INTERVAL, metronomeStartTime,
          expectedBeatTime, metronome, now, timers, nextTimerId, sched,
          latencyCompensator, feed, session>>

schedVars == <<metronomeTimer, metronomeBeat, BEAT_INTERVAL, metronomeStartTime,
               expectedBeatTime, metronome, now, timers, nextTimerId, sched>>

audioVars == <<metronomeTimer, metronomeBeat, BEAT_INTERVAL, metronomeStartTime,
               expectedBeatTime, metronome>>

Null == 0

\* ---- units ------------------------------------------------------------
TicksPerMs == 7

Ms(x) == x * TicksPerMs

Abs(x) == IF x < 0 THEN -x ELSE x

Max(a, b) == IF a >= b THEN a ELSE b

Min(a, b) == IF a <= b THEN a ELSE b

\* Math.round(n / d) for d > 0: the nearest integer, halves towards +infinity.
MathRound(n, d) == (2 * n + d) \div (2 * d)

\* const SPEEDS = { slow: 70, medium: 100, fast: 140 }
SPEEDS == {70, 100, 140}

\* BEAT_INTERVAL = 60000 / BPM, in ticks (exact for every BPM of SPEEDS).
BeatIntervalOf(bpm) == (60000 * TicksPerMs) \div bpm

BeatIntervals == {BeatIntervalOf(bpm) : bpm \in SPEEDS}

\* ======================================================================
\* SmartLatencyCompensator
\* ======================================================================
maxHistory == 50

\* navigator.userAgent, as the set of the substrings detectBaseLatency tests.
UserAgents == {{"Chrome", "Safari", "Mac"}, {"Firefox", "Windows"}}

DetectBaseLatency(userAgent) ==
    LET browser ==
            IF "Chrome" \in userAgent /\ "Edg" \notin userAgent THEN 165
            ELSE IF "Firefox" \in userAgent THEN 140
            ELSE IF "Safari" \in userAgent /\ "Chrome" \notin userAgent THEN 120
            ELSE IF "Edg" \in userAgent THEN 160
            ELSE 165
    IN  IF "Mac" \in userAgent THEN MathRound(browser * 9, 10)
        ELSE IF "Windows" \in userAgent THEN MathRound(browser * 11, 10)
        ELSE browser

\* constructor().  accepted, analyses, pristine and arrivals are observations,
\* not fields of the class: the number of samples learnFromTap has accepted
\* and the runs of analyzeAndAdapt since construction or the last
\* resetLearning, whether adaptiveOffset has only been changed by learning
\* since then, and every accepted sample since then in arrival order;
\* ignored tells that learnFromTap has returned at its first line since
\* learning was last switched.
NewCompensator(userAgent) ==
    [baseCompensation |-> DetectBaseLatency(userAgent),
     adaptiveOffset   |-> 0,
     enabled          |-> TRUE,
     learningMode     |-> TRUE,
     tapHistory       |-> << >>,
     accepted         |-> 0,
     analyses         |-> 0,
     pristine         |-> TRUE,
     arrivals         |-> << >>,
     ignored          |-> FALSE]

GetCurrentCompensation(c) ==
    IF ~c.enabled THEN 0 ELSE c.baseCompensation + c.adaptiveOffset

AddCompensation(c, rawExpectedTime) ==
    IF ~c.enabled THEN rawExpectedTime
    ELSE rawExpectedTime + Ms(c.baseCompensation + c.adaptiveOffset)

\* compensateExpectedTime(rawExpectedTime); the time is in ticks.
CompensateExpectedTime(c, rawExpectedTime) ==
    IF ~c.enabled THEN rawExpectedTime
    ELSE rawExpectedTime - Ms(GetCurrentCompensation(c))

SetEnabledOf(c, flag) == [c EXCEPT !.enabled = flag]

RECURSIVE SumDifference(_)
SumDifference(s) ==
    IF s = << >> THEN 0 ELSE Head(s).difference + SumDifference(Tail(s))

LastN(s, n) == IF Len(s) <= n THEN s ELSE SubSeq(s, Len(s) - n + 1, Len(s))

NoClamp(x) == x

\* Math.max(-200, Math.min(200, x))
ClampOffset(x) == Max(-200, Min(200, x))

AdaptUndamped(c) ==
    LET accurateTaps == SelectSeq(LastN(c.tapHistory, 20), LAMBDA tap : tap.wasAccurate)
        n            == Len(accurateTaps)
        sum          == SumDifference(accurateTaps)
        c1           == [c EXCEPT !.analyses = @ + 1]
    IN  IF n < 5 THEN c1
        ELSE IF Abs(sum) > Ms(30) * n
             THEN [c1 EXCEPT !.adaptiveOffset =
                                 ClampOffset(@ - MathRound(sum, TicksPerMs * n))]
             ELSE c1

AdaptFromAllTaps(c) ==
    LET recentTaps == LastN(c.tapHistory, 20)
        n          == Len(SelectSeq(recentTaps, LAMBDA tap : tap.wasAccurate))
        sum        == SumDifference(recentTaps)
        adjustment == MathRound(3 * sum, 10 * TicksPerMs * Len(recentTaps))
        c1         == [c EXCEPT !.analyses = @ + 1]
    IN  IF n < 5 THEN c1
        ELSE IF Abs(sum) > Ms(30) * Len(recentTaps)
             THEN [c1 EXCEPT !.adaptiveOffset = ClampOffset(@ - adjustment)]
             ELSE c1

\* analyzeAndAdapt().  avgOffset = sum / n is in ticks here, so
\* |avgOffset| > 30 ms is |sum| > 30*7*n, and round(avgOffset * 0.3) in ms is
\* round(3 * sum / (10 * 7 * n)).
AnalyzeAndAdapt(c) ==
    LET recentTaps   == LastN(c.tapHistory, 20)
        accurateTaps == SelectSeq(recentTaps, LAMBDA tap : tap.wasAccurate)
        n            == Len(accurateTaps)
        sum          == SumDifference(accurateTaps)
        adjustment   == MathRound(3 * sum, 10 * TicksPerMs * n)
        c1           == [c EXCEPT !.analyses = @ + 1]
    IN  IF n < 5 THEN c1
        ELSE IF Abs(sum) > Ms(30) * n
             THEN [c1 EXCEPT !.adaptiveOffset = ClampOffset(@ - adjustment)]
             ELSE c1

ShiftNewest(pushed) ==
    IF Len(pushed) > maxHistory THEN SubSeq(pushed, 1, Len(pushed) - 1) ELSE pushed

\* if (this.tapHistory.length > this.maxHistory) this.tapHistory.shift()
ShiftOldest(pushed) ==
    IF Len(pushed) > maxHistory THEN Tail(pushed) ELSE pushed

\* learnFromTap(tapTime, expectedTime, wasAccurate)
LearnFromTap(c, tapTime, expectedTime, wasAccurate) ==
    IF ~c.learningMode THEN [c EXCEPT !.ignored = TRUE]
    ELSE LET timing  == [difference |-> tapTime - expectedTime,
                         wasAccurate |-> wasAccurate]
             pushed  == Append(c.tapHistory, timing)
             history == ShiftOldest(pushed)
             c1      == [c EXCEPT !.tapHistory = history, !.accepted = @ + 1,
                                  !.arrivals = Append(@, timing)]
         IN  IF Len(history) >= 10 /\ Len(history) % 10 = 0
             THEN AnalyzeAndAdapt(c1)
             ELSE c1

ManualKeepsLearning(c, ms) ==
    [c EXCEPT !.baseCompensation = ms, !.adaptiveOffset = 0,
              !.pristine = FALSE, !.ignored = FALSE]

\* setManualCompensation(ms)
SetManualCompensationOf(c, ms) ==
    [c EXCEPT !.baseCompensation = ms, !.adaptiveOffset = 0,
              !.learningMode = FALSE, !.pristine = FALSE, !.ignored = FALSE]

\* calibrateFromExternalTest(latencyMs); the argument is given in tenths of a
\* ms (the prompts default to "165.2" and "-38").
CalibrateFromExternalTestOf(c, latencyTenths) ==
    [c EXCEPT !.baseCompensation = MathRound(latencyTenths, 10),
              !.adaptiveOffset = 0, !.learningMode = TRUE, !.pristine = FALSE,
              !.ignored = FALSE]

ResetLearningOf(c) ==
    [c EXCEPT !.tapHistory = << >>, !.adaptiveOffset = 0, !.learningMode = TRUE,
              !.accepted = 0, !.analyses = 0, !.pristine = TRUE,
              !.arrivals = << >>, !.ignored = FALSE]

\* ---- the compensator driven directly (learning feedback and the latency
\* ---- button), with the scheduler and the matcher at rest ---------------
MaxSamples == 20

RunLength == 5

\* learnFromTap inputs: 80 ms late, 700 ms late, 700 ms early (accurate), and
\* 700 ms late flagged inaccurate.
ExpectedAt == Ms(1000)

LearnSamples ==
    {[tapTime |-> ExpectedAt + Ms(d[1]), expectedTime |-> ExpectedAt,
      wasAccurate |-> d[2]] :
        d \in {<<80, TRUE>>, <<700, TRUE>>, <<-700, TRUE>>, <<700, FALSE>>}}

ManualInputs == {-250}

CalibrateInputs == {-380, 1652}

\* The player's timing changes only every RunLength accepted samples.
CanFeed(s) == s = feed \/ latencyCompensator.accepted % RunLength = 0

LearnFromTapCall ==
    \E s \in LearnSamples :
        /\ latencyCompensator.accepted < MaxSamples
        /\ CanFeed(s)
        /\ latencyCompensator' =
               LearnFromTap(latencyCompensator, s.tapTime, s.expectedTime, s.wasAccurate)
        /\ feed' = IF latencyCompensator.learningMode THEN s ELSE feed
        /\ UNCHANGED <<schedVars, session>>

SetEnabled ==
    \E flag \in BOOLEAN :
        /\ latencyCompensator' = SetEnabledOf(latencyCompensator, flag)
        /\ UNCHANGED <<schedVars, feed, session>>

SetManualCompensation ==
    \E ms \in ManualInputs :
        /\ latencyCompensator' = SetManualCompensationOf(latencyCompensator, ms)
        /\ UNCHANGED <<schedVars, feed, session>>

CalibrateFromExternalTest ==
    \E latencyTenths \in CalibrateInputs :
        /\ latencyCompensator' = CalibrateFromExternalTestOf(latencyCompensator, latencyTenths)
        /\ UNCHANGED <<schedVars, feed, session>>

ResetLearning ==
    /\ latencyCompensator' = ResetLearningOf(latencyCompensator)
    /\ UNCHANGED <<schedVars, feed, session>>

\* ---- state at module load / construction ------------------------------
AudioInit ==
    /\ metronomeTimer = Null
    /\ metronomeBeat = 0
    /\ BEAT_INTERVAL = Ms(600)
    /\ metronomeStartTime = 0
    /\ expectedBeatTime = 0
    /\ metronome = FALSE
    /\ now = 0
    /\ timers = {}
    /\ nextTimerId = 1
    /\ sched = [ticks |-> 0, late |-> FALSE, fixed |-> TRUE, stopped |-> TRUE,
                starts |-> 0, failure |-> "none", tickExpected |-> 0,
                overlap |-> FALSE, silent |-> FALSE, accent |-> FALSE]

NoSession == [phase |-> "none"]

CompInit ==
    /\ AudioInit
    /\ \E ua \in UserAgents : latencyCompensator = NewCompensator(ua)
    /\ feed \in LearnSamples
    /\ session = NoSession

CompNext ==
    \/ LearnFromTapCall
    \/ SetEnabled
    \/ SetManualCompensation
    \/ CalibrateFromExternalTest
    \/ ResetLearning

SpecComp == CompInit /\ [][CompNext]_vars

\* ---- a long run of learning feedback, past the capacity of the history --
MaxLongSamples == 52

LongRunLength == 10

LongSamples == {s \in LearnSamples : s.tapTime = ExpectedAt + Ms(80) \/ ~s.wasAccurate}

LearnFromTapLongRun ==
    \E s \in LongSamples :
        /\ latencyCompensator.accepted < MaxLongSamples
        /\ s = feed \/ latencyCompensator.accepted % LongRunLength = 0
        /\ latencyCompensator' =
               LearnFromTap(latencyCompensator, s.tapTime, s.expectedTime, s.wasAccurate)
        /\ feed' = s
        /\ UNCHANGED <<schedVars, session>>

CompLongNext == LearnFromTapLongRun

SpecCompLong == CompInit /\ [][CompLongNext]_vars

\* ======================================================================
\* Beat matcher: analyzeSimplePerformance(pattern, taps)
\* ======================================================================
\* A pattern element is [type, rest]; a tap is [time].  Hold durations and
\* the duration score computed from them are left out: they influence
\* neither the assignment of taps nor the result of a beat.

\* elementDuration, in sixteenths of a beat (quarter-beats times 4).
ElementDuration(type) ==
    CASE type = "whole"     -> 16
      [] type = "half"      -> 8
      [] type = "quarter"   -> 4
      [] type = "eighth"    -> 2
      [] type = "sixteenth" -> 1
      [] OTHER              -> 4

\* allElements.forEach(...): close a beat when remainingDuration <= 0.
RECURSIVE GroupFrom(_, _, _, _)
GroupFrom(elements, beats, currentBeat, remainingDuration) ==
    IF elements = << >>
    THEN IF currentBeat # << >> THEN Append(beats, currentBeat) ELSE beats
    ELSE LET element   == Head(elements)
             beat      == Append(currentBeat, element)
             remaining == remainingDuration - ElementDuration(element.type)
         IN  IF remaining <= 0
             THEN GroupFrom(Tail(elements), Append(beats, beat), << >>, 4)
             ELSE GroupFrom(Tail(elements), beats, beat, remaining)

\* quarterNoteBeats: the sequence of the beats' element lists.
QuarterNoteBeats(pattern) == GroupFrom(pattern, << >>, << >>, 4)

IsAllRests(elements) == \A k \in 1..Len(elements) : elements[k].rest

\* expectedDuration of a beat, in ticks (BEAT_INTERVAL * duration).
RECURSIVE ExpectedDuration(_, _)
ExpectedDuration(elements, interval) ==
    IF elements = << >> THEN 0
    ELSE (interval * ElementDuration(Head(elements).type)) \div 4
         + ExpectedDuration(Tail(elements), interval)

RawExpectedTime(gameStartTime, interval, beatIndex) ==
    gameStartTime + beatIndex * interval

Uncompensated(c, gameStartTime, interval, beatIndex) ==
    RawExpectedTime(gameStartTime, interval, beatIndex)

\* expectedBeatTime of beat beatIndex (0-based): the compensated raw time.
ExpectedBeatTimeOf(c, gameStartTime, interval, beatIndex) ==
    CompensateExpectedTime(c, RawExpectedTime(gameStartTime, interval, beatIndex))

SetMax(S) == CHOOSE x \in S : \A y \in S : y <= x

\* closerToOtherBeat for a rest beat: the tap is near a neighbouring note beat
\* (whose time is taken uncompensated).
CloserToOtherBeat(beats, gameStartTime, interval, beatIndex, tapTime, timeDiff) ==
    LET near(otherIndex) ==
            LET otherTimeDiff ==
                    Abs(tapTime - RawExpectedTime(gameStartTime, interval, otherIndex))
            IN  /\ ~IsAllRests(beats[otherIndex + 1])
                /\ (10 * otherTimeDiff < 8 * timeDiff \/ otherTimeDiff < Ms(200))
    IN  \/ (beatIndex > 0 /\ near(beatIndex - 1))
        \/ (beatIndex < Len(beats) - 1 /\ near(beatIndex + 1))

TooCloseToOtherTap(taps, tapIndex) ==
    \E otherIndex \in 1..Len(taps) :
        /\ otherIndex # tapIndex
        /\ Abs(taps[tapIndex].time - taps[otherIndex].time) < Ms(100)

IgnoresUsedTaps(usedTaps, tapIndex) == FALSE

\* if (usedTaps.has(tapIndex)) return;
SkipsUsedTap(usedTaps, tapIndex) == tapIndex \in usedTaps

NoRestTolerance(isAllRests) == Ms(300)

\* const tolerance = isAllRests ? 150 : 300;
Tolerance(isAllRests) == IF isAllRests THEN Ms(150) ELSE Ms(300)

\* Does the taps.forEach body reach the scoring for tap tapIndex (1-based)?
IsCandidate(beats, taps, usedTaps, expected, gameStartTime, interval, beatIndex, tapIndex) ==
    LET isAllRests == IsAllRests(beats[beatIndex + 1])
        timeDiff   == Abs(taps[tapIndex].time - expected)
    IN  /\ ~SkipsUsedTap(usedTaps, tapIndex)
        /\ timeDiff <= Tolerance(isAllRests)
        /\ isAllRests =>
             /\ ~CloserToOtherBeat(beats, gameStartTime, interval, beatIndex,
                                   taps[tapIndex].time, timeDiff)
             /\ ~TooCloseToOtherTap(taps, tapIndex)

FarthestFirst(taps, usedTaps, expected, tapIndex) ==
    0 - Abs(taps[tapIndex].time - expected)

\* score of a candidate: timeDiff, minus 25 ms for sequential order.
Score(taps, usedTaps, expected, tapIndex) ==
    LET highestUsedIndex == IF usedTaps = {} THEN 0 ELSE SetMax(usedTaps)
        timeDiff         == Abs(taps[tapIndex].time - expected)
    IN  IF tapIndex > highestUsedIndex THEN timeDiff - Ms(25) ELSE timeDiff

\* taps.forEach(...): bestTap after the taps from tapIndex on have been
\* visited; best = 0 stands for bestTap = null (bestScore = Infinity).
RECURSIVE BestTapFrom(_, _, _, _, _, _, _, _, _)
BestTapFrom(beats, taps, usedTaps, expected, gameStartTime, interval, beatIndex, tapIndex, best) ==
    IF tapIndex > Len(taps) THEN best
    ELSE LET better ==
                 /\ IsCandidate(beats, taps, usedTaps, expected, gameStartTime,
                                interval, beatIndex, tapIndex)
                 /\ (best = 0 \/ Score(taps, usedTaps, expected, tapIndex)
                                   < Score(taps, usedTaps, expected, best))
         IN  BestTapFrom(beats, taps, usedTaps, expected, gameStartTime, interval,
                         beatIndex, tapIndex + 1, IF better THEN tapIndex ELSE best)

\* timingPrecision = max(0, round(100 - timeDiff / 300 * 100)); 300 ms are
\* 2100 ticks, so timeDiff / 300 * 100 = timeDiff / 21.
TimingPrecision(timeDiff) == Max(0, MathRound(2100 - timeDiff, 21))

RestTestInverted(isAllRests, matched, timeDiff) ==
    IF isAllRests THEN (IF matched THEN "perfect" ELSE "miss")
    ELSE IF ~matched THEN "miss"
    ELSE IF TimingPrecision(timeDiff) >= 75 THEN "perfect"
    ELSE IF TimingPrecision(timeDiff) >= 60 THEN "good"
    ELSE IF TimingPrecision(timeDiff) >= 40 THEN "close"
    ELSE "miss"

\* result of a beat.
Classify(isAllRests, matched, timeDiff) ==
    IF isAllRests THEN (IF matched THEN "miss" ELSE "perfect")
    ELSE IF ~matched THEN "miss"
    ELSE IF TimingPrecision(timeDiff) >= 75 THEN "perfect"
    ELSE IF TimingPrecision(timeDiff) >= 60 THEN "good"
    ELSE IF TimingPrecision(timeDiff) >= 40 THEN "close"
    ELSE "miss"

\* One iteration of quarterNoteBeats.map.  tapIndex (0: none) and usedBefore
\* (usedTaps when the beat was visited) are kept in the result for
\* observation; actualTime = 0 stands for null.
BeatResult(c, beats, taps, usedTaps, gameStartTime, interval, beatIndex) ==
    LET elements   == beats[beatIndex + 1]
        expected   == ExpectedBeatTimeOf(c, gameStartTime, interval, beatIndex)
        isAllRests == IsAllRests(elements)
        best       == BestTapFrom(beats, taps, usedTaps, expected, gameStartTime,
                                  interval, beatIndex, 1, 0)
        matched    == best # 0
        timeDiff   == IF matched THEN Abs(taps[best].time - expected) ELSE 0
    IN  [beat             |-> beatIndex + 1,
         isAllRests       |-> isAllRests,
         result           |-> Classify(isAllRests, matched, timeDiff),
         timing           |-> IF isAllRests THEN (IF matched THEN 0 ELSE 100)
                              ELSE IF matched THEN TimingPrecision(timeDiff) ELSE 0,
         expectedTime     |-> expected,
         actualTime       |-> IF matched THEN taps[best].time ELSE 0,
         expectedDuration |-> ExpectedDuration(elements, interval),
         tapIndex         |-> best,
         usedBefore       |-> usedTaps]

\* quarterNoteBeats.map(...), with usedTaps carried from beat to beat.
RECURSIVE ResultsFrom(_, _, _, _, _, _, _, _)
ResultsFrom(c, beats, taps, usedTaps, gameStartTime, interval, beatIndex, results) ==
    IF beatIndex >= Len(beats) THEN results
    ELSE LET r == BeatResult(c, beats, taps, usedTaps, gameStartTime, interval, beatIndex)
         IN  ResultsFrom(c, beats, taps,
                         IF r.tapIndex # 0 THEN usedTaps \cup {r.tapIndex} ELSE usedTaps,
                         gameStartTime, interval, beatIndex + 1, Append(results, r))

MatchResults(c, pattern, taps, gameStartTime, interval) ==
    ResultsFrom(c, QuarterNoteBeats(pattern), taps, {}, gameStartTime, interval, 0, << >>)

AnyMatchAccurate(result) == TRUE

\* const wasAccurate = result.result === 'perfect' || result.result === 'good'
WasAccurate(result) == result = "perfect" \/ result = "good"

\* results.forEach(result => learnFromTap(...)) for results with a tap.
RECURSIVE FeedResults(_, _)
FeedResults(c, results) ==
    IF results = << >> THEN c
    ELSE LET r == Head(results)
             wasAccurate == WasAccurate(r.result)
             c1 == IF r.actualTime # 0 /\ r.expectedTime # 0
                   THEN LearnFromTap(c, r.actualTime, r.expectedTime, wasAccurate)
                   ELSE c
         IN  FeedResults(c1, Tail(results))

\* ---- one matching pass over a recorded game ---------------------------
MaxElements == 3

\* Pattern elements of the catalogue used here: quarter note, quarter rest,
\* eighth rest.
ElementKinds ==
    {[type |-> "quarter", rest |-> FALSE],
     [type |-> "quarter", rest |-> TRUE],
     [type |-> "eighth", rest |-> TRUE]}

Patterns ==
    UNION {[1..n -> ElementKinds] : n \in 1..MaxElements}

\* What the player does at a beat: the taps made around it, in ms after the
\* beat's compensated expected time.  No tap; one exactly on time; one 140 ms
\* early; one 200 ms late; two taps, on time and 90 ms later; two taps,
\* 140 ms early and 140 ms late.
TapBehaviours == {<< >>, <<0>>, <<-140>>, <<200>>, <<0, 90>>, <<-140, 140>>}

\* recordedTaps when every beat i (0-based) was played as plan[i + 1]; taps
\* are recorded in the order they are made.
RECURSIVE RecordedTaps(_, _, _, _, _)
RecordedTaps(c, gameStartTime, interval, plan, beatIndex) ==
    IF beatIndex >= Len(plan) THEN << >>
    ELSE LET expected ==
                 CompensateExpectedTime(c, gameStartTime + beatIndex * interval)
             offsets  == plan[beatIndex + 1]
         IN  [k \in 1..Len(offsets) |-> [time |-> expected + Ms(offsets[k])]]
             \o RecordedTaps(c, gameStartTime, interval, plan, beatIndex + 1)

RECURSIVE Trained(_, _, _)
Trained(c, sample, n) ==
    IF n = 0 THEN c
    ELSE Trained(LearnFromTap(c, sample.tapTime, sample.expectedTime, sample.wasAccurate),
                 sample, n - 1)

\* The compensator as the game sets it up (calibrated to -38 ms), the same
\* switched off, and one calibrated to 165.2 ms that has then learnt from
\* nineteen accurate samples that were 80 ms late, so that the next sample
\* it accepts is followed by an analysis.
GameCompensator == CalibrateFromExternalTestOf(NewCompensator({"Chrome", "Safari", "Mac"}), -380)

MatchCompensators ==
    {GameCompensator,
     SetEnabledOf(GameCompensator, FALSE),
     Trained(CalibrateFromExternalTestOf(GameCompensator, 1652),
             [tapTime |-> ExpectedAt + Ms(80), expectedTime |-> ExpectedAt,
              wasAccurate |-> TRUE], 19)}

MatchMetronomeStart == Ms(1000)

MatchInit ==
    /\ \E c \in MatchCompensators, interval \in BeatIntervals, pattern \in Patterns :
         LET gameStartTime == MatchMetronomeStart + 4 * interval
             beats         == QuarterNoteBeats(pattern)
         IN  \E plan \in [1..Len(beats) -> TapBehaviours] :
               /\ latencyCompensator = c
               /\ session = [phase         |-> "recorded",
                             pattern       |-> pattern,
                             taps          |-> RecordedTaps(c, gameStartTime, interval, plan, 0),
                             gameStartTime |-> gameStartTime,
                             interval      |-> interval,
                             before        |-> c,
                             results       |-> << >>]
               /\ BEAT_INTERVAL = interval
               /\ now = gameStartTime + Len(beats) * interval + Ms(300)
    /\ metronomeTimer = Null
    /\ metronomeBeat = 0
    /\ metronomeStartTime = MatchMetronomeStart
    /\ expectedBeatTime = MatchMetronomeStart
    /\ metronome = TRUE
    /\ timers = {}
    /\ nextTimerId = 1
    /\ sched = [ticks |-> 0, late |-> FALSE, fixed |-> TRUE, stopped |-> TRUE,
                starts |-> 0, failure |-> "none", tickExpected |-> 0,
                overlap |-> FALSE, silent |-> FALSE, accent |-> FALSE]
    /\ feed \in {CHOOSE s \in LearnSamples : TRUE}

\* analyzeSimplePerformance(currentPattern, recordedTaps): the early return
\* when window.gameStartTime is not set, the matching, the learning feedback.
AnalyzeSimplePerformance ==
    /\ session.phase = "recorded"
    /\ IF session.gameStartTime = 0
       THEN /\ session' = [session EXCEPT !.phase = "failed"]
            /\ UNCHANGED latencyCompensator
       ELSE LET results == MatchResults(latencyCompensator, session.pattern, session.taps,
                                        session.gameStartTime, session.interval)
            IN  /\ session' = [session EXCEPT !.phase = "analyzed",
                                              !.results = results,
                                              !.before = latencyCompensator]
                /\ latencyCompensator' = FeedResults(latencyCompensator, results)
    /\ UNCHANGED <<schedVars, feed>>

MatchNext == AnalyzeSimplePerformance

SpecMatch == MatchInit /\ [][MatchNext]_vars

\* ---- the beat grouping alone, over patterns of every element type -------
MaxGroupElements == 3

\* Elements as the pattern catalogue writes them: a type, rest or note, and
\* dotted on some notes.
GroupElementKinds ==
    {e \in [type   : {"whole", "half", "quarter", "eighth", "sixteenth"},
            rest   : BOOLEAN,
            dotted : BOOLEAN] : ~(e.rest /\ e.dotted)}

GroupPatterns == UNION {[1..n -> GroupElementKinds] : n \in 1..MaxGroupElements}

GroupInit ==
    /\ AudioInit
    /\ latencyCompensator = GameCompensator
    /\ feed \in {CHOOSE s \in LearnSamples : TRUE}
    /\ \E pattern \in GroupPatterns, interval \in BeatIntervals :
          session = [phase |-> "pattern", pattern |-> pattern, interval |-> interval]

\* The grouping of allElements into quarterNoteBeats and the
\* expectedDuration computed for each of them.
GroupQuarterNoteBeats ==
    /\ session.phase = "pattern"
    /\ LET beats == QuarterNoteBeats(session.pattern)
       IN  session' =
               [phase            |-> "grouped",
                pattern          |-> session.pattern,
                interval         |-> session.interval,
                quarterNoteBeats |-> beats,
                expectedDuration |->
                    [i \in 1..Len(beats) |-> ExpectedDuration(beats[i], session.interval)]]
    /\ UNCHANGED <<schedVars, latencyCompensator, feed>>

GroupNext == GroupQuarterNoteBeats

SpecGroup == GroupInit /\ [][GroupNext]_vars

\* ======================================================================
\* Metronome scheduler (js/modules/audio.js)
\* ======================================================================
MaxClockMs == 1800

MaxStarts == 2

\* How far the clock may move between two events, besides moving exactly
\* to the time a pending wake is due.
ClockSteps == {Ms(300)}

KeepsTimers(timer, pending) == pending

\* stopMetronome(): the timeouts left pending by clearTimeout(metronomeTimer).
ClearedTimers(timer, pending) ==
    IF timer # Null THEN {t \in pending : t.id # timer} ELSE pending

\* What the host lacks when startMetronome is called: nothing, the clock
\* (performance.now) or the timer (setTimeout).
HostFailures == {"none", "clock", "timer"}

RestartKeepsChain(timer, pending) == pending

\* startMetronome(): stopMetronome() comes first
TimersAfterRestart(timer, pending) == ClearedTimers(timer, pending)

FromCurrentTime(expected, interval, currentTime) == currentTime + interval

\* scheduleNextBeat(): expectedBeatTime += BEAT_INTERVAL
NextExpectedBeatTime(expected, interval, currentTime) == expected + interval

\* metronomeTick(): playTickSound(true) is called when metronomeBeat is 0,
\* playTickSound(false) otherwise, and nothing without the element.
AccentOf(beat) == metronome /\ beat = 0

\* metronomeBeat after metronomeTick() has returned normally.
BeatAfterTick(beat) == IF metronome THEN (beat + 1) % 4 ELSE beat

MaxBeatIndex == 4

GetBeatTimeFromExpected(beatIndex) == expectedBeatTime + beatIndex * BEAT_INTERVAL

\* getBeatTime(beatIndex)
GetBeatTime(beatIndex) == metronomeStartTime + beatIndex * BEAT_INTERVAL

\* initAudio(metronomeElement, beatInterval)
InitAudio ==
    \E interval \in BeatIntervals :
        /\ metronome' = TRUE
        /\ BEAT_INTERVAL' = interval
        /\ sched' = [sched EXCEPT !.fixed = @ /\ interval = BEAT_INTERVAL]
        /\ UNCHANGED <<metronomeTimer, metronomeBeat, metronomeStartTime, expectedBeatTime,
                       now, timers, nextTimerId, latencyCompensator, feed, session>>

\* setBeatInterval(interval)
SetBeatInterval ==
    \E interval \in BeatIntervals :
        /\ BEAT_INTERVAL' = interval
        /\ sched' = [sched EXCEPT !.fixed = @ /\ interval = BEAT_INTERVAL]
        /\ UNCHANGED <<metronomeTimer, metronomeBeat, metronomeStartTime, expectedBeatTime,
                       metronome, now, timers, nextTimerId, latencyCompensator, feed, session>>

\* startMetronome(): stopMetronome(), reset, tick 0, scheduleNextBeat().
\* playTickSound may throw inside metronomeTick (soundFails); the exception
\* then leaves startMetronome before scheduleNextBeat is called.  Without
\* the clock, performance.now() throws at the third statement; without the
\* timer, setTimeout throws at the end of scheduleNextBeat.
StartMetronomeWith(host, soundFails) ==
    LET cleared   == TimersAfterRestart(metronomeTimer, timers)
        thrown    == soundFails /\ metronome
        next      == NextExpectedBeatTime(now, BEAT_INTERVAL, now)
        scheduled == host = "none" /\ ~thrown
    IN  /\ sched.starts < MaxStarts
        /\ metronomeTimer' = IF scheduled THEN nextTimerId ELSE Null
        /\ timers' = IF scheduled
                      THEN cleared \cup {[id |-> nextTimerId, due |-> Max(now, next)]}
                      ELSE cleared
        /\ nextTimerId' = IF scheduled THEN nextTimerId + 1 ELSE nextTimerId
        /\ IF host = "clock"
           THEN /\ metronomeBeat' = 0
                /\ sched' = [sched EXCEPT !.ticks = 0, !.stopped = TRUE,
                                          !.starts = @ + 1,
                                          !.failure = "clock",
                                          !.overlap = timers # {},
                                          !.silent = FALSE, !.accent = FALSE]
                /\ UNCHANGED <<metronomeStartTime, expectedBeatTime>>
           ELSE /\ metronomeStartTime' = now
                /\ metronomeBeat' = IF thrown THEN 0 ELSE BeatAfterTick(0)
                /\ expectedBeatTime' = IF thrown THEN now ELSE next
                /\ sched' = [sched EXCEPT
                                !.ticks = 1, !.late = FALSE, !.fixed = TRUE,
                                !.stopped = FALSE, !.starts = @ + 1,
                                !.tickExpected = now,
                                !.overlap = timers # {},
                                !.silent = ~metronome,
                                !.accent = AccentOf(0),
                                !.failure = IF thrown THEN "sound" ELSE host]
        /\ UNCHANGED <<BEAT_INTERVAL, metronome, now>>

\* A call of startMetronome() from the page, whatever the host provides.
StartMetronome ==
    \E host \in HostFailures, soundFails \in BOOLEAN :
        /\ StartMetronomeWith(host, soundFails)
        /\ UNCHANGED <<latencyCompensator, feed, session>>

\* stopMetronome()
StopMetronome ==
    /\ timers' = ClearedTimers(metronomeTimer, timers)
    /\ metronomeTimer' = Null
    /\ sched' = [sched EXCEPT !.stopped = TRUE, !.failure = "none"]
    /\ UNCHANGED <<metronomeBeat, BEAT_INTERVAL, metronomeStartTime, expectedBeatTime,
                   metronome, now, nextTimerId, latencyCompensator, feed, session>>

\* The callback given to setTimeout by scheduleNextBeat: metronomeTick();
\* scheduleNextBeat().  The host runs it once its delay has passed, at that
\* time or later.
TimerCallback ==
    \E t \in timers, soundFails \in BOOLEAN :
        LET thrown == soundFails /\ metronome
            next   == NextExpectedBeatTime(expectedBeatTime, BEAT_INTERVAL, now)
        IN  /\ now >= t.due
            /\ sched' = [sched EXCEPT !.ticks = @ + 1, !.late = @ \/ now > t.due,
                                      !.tickExpected = expectedBeatTime,
                                      !.silent = @ \/ ~metronome,
                                      !.accent = AccentOf(metronomeBeat),
                                      !.failure = IF thrown THEN "sound" ELSE "none"]
            /\ IF thrown
               THEN /\ timers' = timers \ {t}
                    /\ UNCHANGED <<metronomeTimer, metronomeBeat, expectedBeatTime, nextTimerId>>
               ELSE /\ metronomeBeat' = BeatAfterTick(metronomeBeat)
                    /\ expectedBeatTime' = next
                    /\ metronomeTimer' = nextTimerId
                    /\ timers' = (timers \ {t}) \cup {[id |-> nextTimerId, due |-> Max(now, next)]}
                    /\ nextTimerId' = nextTimerId + 1
            /\ UNCHANGED <<BEAT_INTERVAL, metronomeStartTime, metronome, now,
                           latencyCompensator, feed, session>>

\* Time passes.
AdvanceClock ==
    \E d \in ClockSteps \cup {t.due - now : t \in {u \in timers : u.due > now}} :
        /\ now + d <= Ms(MaxClockMs)
        /\ now' = now + d
        /\ UNCHANGED <<audioVars, timers, nextTimerId, sched, latencyCompensator, feed, session>>

SchedInit ==
    /\ AudioInit
    /\ latencyCompensator = GameCompensator
    /\ feed \in {CHOOSE s \in LearnSamples : TRUE}
    /\ session = NoSession

SchedNext ==
    \/ InitAudio
    \/ SetBeatInterval
    \/ StartMetronome
    \/ StopMetronome
    \/ TimerCallback
    \/ AdvanceClock

SpecSched == SchedInit /\ [][SchedNext]_vars

\* ======================================================================
\* Games: startProperGame and its beat tracking, the key handlers of
\* js/modules/inputHandler.js, and the analysis that ends a game
\* ======================================================================
\* session is here the state of the page:
\*   mode, isActive, keyIsDown, holding       gameState
\*   listening                                activeListeners is not empty
\*   isRecording, gameStartTime               window.isRecording,
\*                                            window.gameStartTime
\*   current                                  the game whose tap list
\*                                            window.recordedTaps is (0: none)
\*   countInBeat                              the count-in counter
\*   games                                    one record per call of
\*                                            startProperGame that got to its
\*                                            end: the closure of trackBeat
\*                                            (beatIndex, gameStartTime,
\*                                            recordedTaps, currentPattern)
\*                                            and its pending timeout
\*   physical, events                         the keys held down, the number
\*                                            of key events so far
\*   ignoredAt                                the times of the taps logged as
\*                                            ignored
\* In a game record clicked is the time of the call, before and startUsed
\* are the compensator and the start time its analysis has used.  The host
\* has its clock and its timer, the mode and the pattern are chosen before
\* the first game, touch input is left out, and holdPeriods lists are not
\* kept, only the currentlyHolding flags that guard them.
MaxKeyEvents == 2

MaxGameClockMs == 5500

Keys == {" ", "a", "Enter"}

\* processTap: player === 1 ? (mode === 'single' ? currentlyHolding
\*                                              : currentlyHoldingP1)
\*                          : currentlyHoldingP2
HoldFlag(mode, player) ==
    IF player = 1 THEN (IF mode = "single" THEN "single" ELSE "P1") ELSE "P2"

\* addHoldPeriod / endHoldPeriod: the flag they set.
HoldFlagOfPeriod(mode, player) ==
    IF mode = "single" THEN "single" ELSE IF player = 1 THEN "P1" ELSE "P2"

\* recordTapForAnalysis(tapTime, player)
RecordTapForAnalysis(g, tapTime, player) ==
    IF g.isRecording /\ g.current # 0
    THEN [g EXCEPT !.games[g.current].recordedTaps =
             Append(@, [time |-> tapTime, player |-> player, startTime |-> tapTime,
                        endTime |-> Null, duration |-> 0, isComplete |-> FALSE])]
    ELSE IF g.current # 0 THEN [g EXCEPT !.ignoredAt = @ \cup {tapTime}]
    ELSE g

\* processTap(key, currentTime, player)
ProcessTap(g, key, currentTime, player) ==
    LET g1 == [g EXCEPT !.keyIsDown[key] = TRUE]
        g2 == IF ~g1.holding[HoldFlag(g1.mode, player)]
              THEN [g1 EXCEPT !.holding[HoldFlagOfPeriod(g1.mode, player)] = TRUE]
              ELSE g1
    IN  RecordTapForAnalysis(g2, currentTime, player)

OpenTapsOf(taps, player) ==
    {i \in 1..Len(taps) : taps[i].player = player /\ ~taps[i].isComplete}

SetMin(S) == CHOOSE x \in S : \A y \in S : x <= y

CompleteTap(taps, i, releaseTime) ==
    [taps EXCEPT ![i] = [@ EXCEPT !.endTime = releaseTime,
                                  !.duration = releaseTime - taps[i].startTime,
                                  !.isComplete = TRUE]]

\* updateTapDuration(releaseTime, player): the loop runs from the last tap
\* down and stops at the first incomplete tap of the player.
UpdateTapDuration(taps, releaseTime, player) ==
    IF OpenTapsOf(taps, player) = {} THEN taps
    ELSE CompleteTap(taps, SetMax(OpenTapsOf(taps, player)), releaseTime)

\* handleKeyUp, one of its three blocks: setKeyDown(key, false); if the flag
\* is set, endHoldPeriod(currentTime, player) and updateTapDuration.
ReleaseBlock(g, key, flag, player, currentTime) ==
    LET g1 == [g EXCEPT !.keyIsDown[key] = FALSE]
    IN  IF g1.holding[flag]
        THEN LET g2 == [g1 EXCEPT !.holding[HoldFlagOfPeriod(g1.mode, player)] = FALSE]
             IN  IF g2.current # 0
                 THEN [g2 EXCEPT !.games[g2.current].recordedTaps =
                                     UpdateTapDuration(@, currentTime, player)]
                 ELSE g2
        ELSE g1

\* The patterns played: the empty pattern getCurrentPattern returns for a
\* level without patterns; one quarter note; a quarter note and a quarter
\* rest.
GamePatterns ==
    {<< >>,
     <<[type |-> "quarter", rest |-> FALSE]>>,
     <<[type |-> "quarter", rest |-> FALSE], [type |-> "quarter", rest |-> TRUE]>>}

\* The page once it is loaded: audio initialised at 100 bpm, no game yet.
GameInit ==
    /\ now = MatchMetronomeStart
    /\ BEAT_INTERVAL = BeatIntervalOf(100)
    /\ metronome = TRUE
    /\ metronomeStartTime = 0
    /\ expectedBeatTime = 0
    /\ metronomeBeat = 0
    /\ metronomeTimer = Null
    /\ timers = {}
    /\ nextTimerId = 1
    /\ sched = [ticks |-> 0, late |-> FALSE, fixed |-> TRUE, stopped |-> TRUE,
                starts |-> 0, failure |-> "none", tickExpected |-> 0,
                overlap |-> FALSE, silent |-> FALSE, accent |-> FALSE]
    /\ latencyCompensator = GameCompensator
    /\ feed \in {CHOOSE s \in LearnSamples : TRUE}
    /\ \E mode \in {"single", "multi"}, pattern \in GamePatterns :
          session = [phase         |-> "page",
                     mode          |-> mode,
                     pattern       |-> pattern,
                     isActive      |-> FALSE,
                     listening     |-> FALSE,
                     isRecording   |-> FALSE,
                     gameStartTime |-> 0,
                     current       |-> 0,
                     countInBeat   |-> 0,
                     keyIsDown     |-> [k \in Keys |-> FALSE],
                     holding       |-> [f \in {"single", "P1", "P2"} |-> FALSE],
                     physical      |-> {},
                     pressTaps     |-> [k \in Keys |-> 0],
                     pressActive   |-> [k \in Keys |-> FALSE],
                     events        |-> 0,
                     ignoredAt     |-> {},
                     games         |-> << >>]

\* startProperGame(): startNewGame(), resetGameFlow(), startListening(),
\* startMetronome(), startCountIn(), the closure of trackBeat, the new
\* window.recordedTaps, window.isRecording = false, and the first timeout
\* of trackBeat.  Timeouts of earlier games are left pending.  When
\* playTickSound throws inside startMetronome the call ends there.  Games
\* are started in the first MaxClockMs milliseconds.
StartProperGame ==
    \E soundFails \in BOOLEAN :
        LET thrown == soundFails /\ metronome
            g1 == [session EXCEPT
                      !.isActive    = TRUE,
                      !.keyIsDown   = [k \in Keys |-> FALSE],
                      !.holding     = [f \in {"single", "P1", "P2"} |-> FALSE],
                      !.countInBeat = 0,
                      !.listening   = TRUE]
            game == [clicked       |-> now,
                     step          |-> "trackBeat",
                     due           |-> now + BEAT_INTERVAL,
                     beatIndex     |-> -4,
                     gameStartTime |-> 0,
                     recordedTaps  |-> << >>,
                     pattern       |-> session.pattern,
                     before        |-> latencyCompensator,
                     startUsed     |-> 0,
                     recordingAtAnalysis |-> FALSE,
                     results       |-> << >>]
        IN  /\ now <= Ms(MaxClockMs)
            /\ StartMetronomeWith("none", soundFails)
            /\ session' = IF thrown THEN g1
                          ELSE [g1 EXCEPT !.games = Append(@, game),
                                          !.current = Len(g1.games) + 1,
                                          !.isRecording = FALSE]
            /\ UNCHANGED <<latencyCompensator, feed>>

\* History: one more processTap call for the press of the key under way.
Tapped(g, key) == [g EXCEPT !.pressTaps[key] = @ + 1]

\* handleKeyDown(e): a press of the key, or its auto-repeat while held.
\* pressTaps and pressActive are history: the processTap calls made for the
\* press under way of each key, and whether the game was active when the
\* press began.
HandleKeyDown ==
    \E key \in Keys :
        /\ session.listening
        /\ session.events < MaxKeyEvents
        /\ LET repeat == key \in session.physical
               g == [session EXCEPT
                        !.physical = @ \cup {key}, !.events = @ + 1,
                        !.pressTaps[key] = IF repeat THEN @ ELSE 0,
                        !.pressActive[key] = IF repeat THEN @ ELSE session.isActive]
           IN  session' =
                 IF ~g.isActive THEN g
                 ELSE IF g.mode = "single"
                      THEN IF key = " " THEN Tapped(ProcessTap(g, " ", now, 1), " ") ELSE g
                      ELSE LET g1 == IF key = "a" /\ ~g.keyIsDown["a"]
                                     THEN Tapped(ProcessTap(g, "a", now, 1), "a") ELSE g
                           IN  IF key = "Enter" /\ ~g1.keyIsDown["Enter"]
                               THEN Tapped(ProcessTap(g1, "Enter", now, 2), "Enter")
                               ELSE g1
        /\ UNCHANGED <<schedVars, latencyCompensator, feed>>

\* handleKeyUp(e): the release of a key that is held.
HandleKeyUp ==
    \E key \in session.physical :
        /\ session.listening
        /\ session.events < MaxKeyEvents
        /\ LET g  == [session EXCEPT !.physical = @ \ {key}, !.events = @ + 1]
               g1 == IF key = " " THEN ReleaseBlock(g, " ", "single", 1, now) ELSE g
               g2 == IF key = "a" THEN ReleaseBlock(g1, "a", "P1", 1, now) ELSE g1
               g3 == IF key = "Enter" THEN ReleaseBlock(g2, "Enter", "P2", 2, now) ELSE g2
           IN  session' = g3
        /\ UNCHANGED <<schedVars, latencyCompensator, feed>>

\* trackBeat() of game k: while beatIndex < 0 it advances the count-in and,
\* when advanceCountIn reports it complete, switches recording on and makes
\* the tap list of the game window.recordedTaps; afterwards one call per
\* scoring beat, the call of the last beat switching recording off and
\* setting the 300 ms timeout of the analysis.  A call with beatIndex at or
\* past the number of beats does nothing and sets no timeout.
TrackBeat ==
    \E k \in 1..Len(session.games) :
        LET game == session.games[k]
            n    == Len(QuarterNoteBeats(game.pattern))
        IN  /\ game.step = "trackBeat"
            /\ now = game.due
            /\ IF game.beatIndex < 0
               THEN LET complete == session.countInBeat + 1 >= 4
                        start    == metronomeStartTime + 4 * BEAT_INTERVAL
                    IN  session' =
                          [session EXCEPT
                             !.countInBeat   = @ + 1,
                             !.current       = IF complete THEN k ELSE @,
                             !.isRecording   = IF complete THEN TRUE ELSE @,
                             !.gameStartTime = IF complete THEN start ELSE @,
                             !.games[k] =
                                 [@ EXCEPT !.gameStartTime = IF complete THEN start ELSE @,
                                           !.beatIndex = @ + 1,
                                           !.due = now + BEAT_INTERVAL]]
               ELSE IF game.beatIndex >= n
               THEN session' = [session EXCEPT !.games[k].step = "ended"]
               ELSE LET last == game.beatIndex + 1 >= n
                    IN  session' =
                          [session EXCEPT
                             !.isRecording = IF last THEN FALSE ELSE @,
                             !.games[k] =
                                 [@ EXCEPT !.beatIndex = @ + 1,
                                           !.step = IF last THEN "analysis" ELSE @,
                                           !.due = IF last THEN now + Ms(300)
                                                   ELSE now + BEAT_INTERVAL]]
            /\ UNCHANGED <<schedVars, latencyCompensator, feed>>

\* The timeout set by the last trackBeat of game k: stopMetronome(),
\* stopListening(), endGame(), analyzeSimplePerformance(currentPattern,
\* recordedTaps), which reads window.gameStartTime and returns at once when
\* it is not set.
FinishGame ==
    \E k \in 1..Len(session.games) :
        LET game    == session.games[k]
            start   == session.gameStartTime
            results == IF start = 0 THEN << >>
                       ELSE MatchResults(latencyCompensator, game.pattern,
                                         game.recordedTaps, start, BEAT_INTERVAL)
        IN  /\ game.step = "analysis"
            /\ now = game.due
            /\ timers' = ClearedTimers(metronomeTimer, timers)
            /\ metronomeTimer' = Null
            /\ sched' = [sched EXCEPT !.stopped = TRUE, !.failure = "none"]
            /\ session' = [session EXCEPT
                              !.listening = FALSE,
                              !.isActive  = FALSE,
                              !.games[k]  = [@ EXCEPT !.step = "done",
                                                      !.before = latencyCompensator,
                                                      !.startUsed = start,
                                                      !.recordingAtAnalysis = session.isRecording,
                                                      !.results = results]]
            /\ latencyCompensator' = FeedResults(latencyCompensator, results)
            /\ UNCHANGED <<metronomeBeat, BEAT_INTERVAL, metronomeStartTime,
                           expectedBeatTime, metronome, now, nextTimerId, feed>>

\* The times at which a timeout is due: those of the games, the metronome's.
PendingDues ==
    {session.games[k].due : k \in {j \in 1..Len(session.games) :
                                       session.games[j].step \in {"trackBeat", "analysis"}}}
    \cup {t.due : t \in timers}

\* Time passes until the next timeout is due, up to MaxGameClockMs.
AdvanceGameClock ==
    /\ PendingDues # {}
    /\ \A d \in PendingDues : now < d
    /\ SetMin(PendingDues) <= Ms(MaxGameClockMs)
    /\ now' = SetMin(PendingDues)
    /\ UNCHANGED <<audioVars, timers, nextTimerId, sched, latencyCompensator, feed, session>>

GameNext ==
    \/ StartProperGame
    \/ HandleKeyDown
    \/ HandleKeyUp
    \/ TrackBeat
    \/ FinishGame
    \/ AdvanceGameClock
    \/ TimerCallback

SpecGame == GameInit /\ [][GameNext]_vars

\* ======================================================================
\* Bars and pattern selection (the patterns module)
\* ======================================================================
MaxBarElements == 4

\* noteValue of normalizeBar, in eighths of a quarter-beat: quarter 1,
\* eighth 0.5, sixteenth 0.25, any other type 0; times 1.5 when dotted.
NoteValue(note) ==
    LET base == CASE note.type = "quarter"   -> 8
                  [] note.type = "eighth"    -> 4
                  [] note.type = "sixteenth" -> 2
                  [] OTHER                   -> 0
    IN  IF note.dotted THEN (3 * base) \div 2 ELSE base

\* The first loop of normalizeBar: notes are kept while the bar is not full;
\* the first note that does not fit ends the loop.
RECURSIVE KeepNotes(_, _, _, _)
KeepNotes(bar, i, out, totalBeats) ==
    IF i > Len(bar) \/ totalBeats >= 32 THEN [out |-> out, totalBeats |-> totalBeats]
    ELSE IF totalBeats + NoteValue(bar[i]) <= 32
         THEN KeepNotes(bar, i + 1, Append(out, bar[i]), totalBeats + NoteValue(bar[i]))
         ELSE [out |-> out, totalBeats |-> totalBeats]

PadRest(type) == [type |-> type, rest |-> TRUE, dotted |-> FALSE]

\* The second loop of normalizeBar: rests are appended while the bar is
\* underfilled, a quarter, else an eighth, else a sixteenth, until less than
\* a sixteenth remains.
RECURSIVE PadBar(_, _)
PadBar(out, totalBeats) ==
    LET remaining == 32 - totalBeats
    IN  IF totalBeats >= 32 THEN out
        ELSE IF remaining >= 8 THEN PadBar(Append(out, PadRest("quarter")), totalBeats + 8)
        ELSE IF remaining >= 4 THEN PadBar(Append(out, PadRest("eighth")), totalBeats + 4)
        ELSE IF remaining >= 2 THEN PadBar(Append(out, PadRest("sixteenth")), totalBeats + 2)
        ELSE out

\* normalizeBar(bar); the third loop never runs, totalBeats being at most 4
\* after the first two.
NormalizeBarOf(bar) ==
    LET kept == KeepNotes(bar, 1, << >>, 0)
    IN  PadBar(kept.out, kept.totalBeats)

Bars == UNION {[1..n -> GroupElementKinds] : n \in 0..MaxBarElements}

BarInit ==
    /\ AudioInit
    /\ latencyCompensator = GameCompensator
    /\ feed \in {CHOOSE s \in LearnSamples : TRUE}
    /\ \E bar \in Bars : session = [phase |-> "bar", bar |-> bar, out |-> << >>]

\* A call of normalizeBar on the bar.
NormalizeBar ==
    /\ session.phase = "bar"
    /\ session' = [session EXCEPT !.phase = "normalized",
                                  !.out = NormalizeBarOf(session.bar)]
    /\ UNCHANGED <<schedVars, latencyCompensator, feed>>

BarNext == NormalizeBar

SpecBar == BarInit /\ [][BarNext]_vars

\* ======================================================================
\* Resource manager (class ResourceManager, js/simple-timing.js)
\* ======================================================================
\* The manager's fields are timers, intervals, listeners, audioNodes and
\* observers.  The host side is kept next to them: hostTimers and
\* hostIntervals are the timeouts and intervals the browser still holds
\* (one id pool for both), attached is the set of listeners on the DOM
\* elements.  An attached listener is identified by element, event type,
\* callback and capture flag, as in EventTarget; options are modelled by
\* their capture flag.  ran, before, ranAfter and cleanups are history.
MaxResources == 3

MaxCleanups == 2

Elements == {"startButton", "window"}

EventTypes == {"click"}

Callbacks == {"f", "g"}

AudioNodes == {"gain", "oscillator"}

Observers == {"resize"}

\* element.removeEventListener(event, listener): no options, so only the
\* listener whose capture flag is false matches.
HostRemoveEventListener(attached, element, event, listener) ==
    attached \ {[element |-> element, event |-> event,
                 listener |-> listener, capture |-> FALSE]}

\* clearTimeout(id) and clearInterval(id) of the host: either clears the
\* timeout or the interval of that id.
HostClear(r, id) ==
    [r EXCEPT !.hostTimers = @ \ {id}, !.hostIntervals = @ \ {id}]

\* Index of the first entry of the element's list with this event and
\* listener, 0 if there is none (findIndex).
FindIndex(list, event, listener) ==
    LET hits == {i \in 1..Len(list) : /\ list[i].event = event
                                      /\ list[i].listener = listener}
    IN  IF hits = {} THEN 0 ELSE CHOOSE i \in hits : \A j \in hits : i <= j

Splice(list, index) ==
    [i \in 1..(Len(list) - 1) |-> IF i < index THEN list[i] ELSE list[i + 1]]

RECURSIVE RemoveAll(_, _, _, _)
\* listeners.forEach(({event, listener}) => element.removeEventListener(...))
RemoveAll(attached, element, list, i) ==
    IF i > Len(list) THEN attached
    ELSE RemoveAll(HostRemoveEventListener(attached, element, list[i].event,
                                           list[i].listener),
                   element, list, i + 1)

RECURSIVE RemoveEvery(_, _, _)
RemoveEvery(attached, listeners, elements) ==
    IF elements = {} THEN attached
    ELSE LET element == CHOOSE e \in elements : TRUE
         IN  RemoveEvery(RemoveAll(attached, element, listeners[element], 1),
                         listeners, elements \ {element})

RECURSIVE TotalLength(_, _)
TotalLength(listeners, elements) ==
    IF elements = {} THEN 0
    ELSE LET element == CHOOSE e \in elements : TRUE
         IN  Len(listeners[element]) + TotalLength(listeners, elements \ {element})

GetStats(r) ==
    [timers     |-> Cardinality(r.timers),
     intervals  |-> Cardinality(r.intervals),
     listeners  |-> TotalLength(r.listeners, Elements),
     audioNodes |-> Cardinality(r.audioNodes),
     observers  |-> Cardinality(r.observers)]

ResInit ==
    /\ AudioInit
    /\ latencyCompensator = GameCompensator
    /\ feed \in {CHOOSE s \in LearnSamples : TRUE}
    /\ session = [phase |-> "resources",
                  timers |-> {}, intervals |-> {},
                  listeners |-> [e \in Elements |-> << >>],
                  audioNodes |-> {}, observers |-> {},
                  hostTimers |-> {}, hostIntervals |-> {}, attached |-> {},
                  nextId |-> 1, calls |-> 0, cleanups |-> 0,
                  ran |-> {}, before |-> {}, ranAfter |-> {}]

ResUnchanged == UNCHANGED <<schedVars, latencyCompensator, feed>>

SetTimeout ==
    /\ session.calls < MaxResources
    /\ session' = [session EXCEPT !.timers = @ \cup {session.nextId},
                                  !.hostTimers = @ \cup {session.nextId},
                                  !.nextId = @ + 1, !.calls = @ + 1]
    /\ ResUnchanged

SetInterval ==
    /\ session.calls < MaxResources
    /\ session' = [session EXCEPT !.intervals = @ \cup {session.nextId},
                                  !.hostIntervals = @ \cup {session.nextId},
                                  !.nextId = @ + 1, !.calls = @ + 1]
    /\ ResUnchanged

AddEventListener ==
    /\ session.calls < MaxResources
    /\ \E element \in Elements, event \in EventTypes,
          listener \in Callbacks, capture \in BOOLEAN :
          LET entry == [event |-> event, listener |-> listener,
                        capture |-> capture]
          IN  session' = [session EXCEPT
                  !.listeners[element] = Append(@, entry),
                  !.attached = @ \cup {[element |-> element, event |-> event,
                                        listener |-> listener,
                                        capture |-> capture]},
                  !.calls = @ + 1]
    /\ ResUnchanged

RegisterAudioNode ==
    /\ session.calls < MaxResources
    /\ \E node \in AudioNodes :
          session' = [session EXCEPT !.audioNodes = @ \cup {node},
                                     !.calls = @ + 1]
    /\ ResUnchanged

RegisterObserver ==
    /\ session.calls < MaxResources
    /\ \E observer \in Observers :
          session' = [session EXCEPT !.observers = @ \cup {observer},
                                     !.calls = @ + 1]
    /\ ResUnchanged

ClearTimeout ==
    /\ \E id \in 1..(session.nextId - 1) :
          /\ id \in session.hostTimers \cup session.hostIntervals \cup session.timers
          /\ session' = [HostClear(session, id) EXCEPT !.timers = @ \ {id}]
    /\ ResUnchanged

ClearInterval ==
    /\ \E id \in 1..(session.nextId - 1) :
          /\ id \in session.hostTimers \cup session.hostIntervals \cup session.intervals
          /\ session' = [HostClear(session, id) EXCEPT !.intervals = @ \ {id}]
    /\ ResUnchanged

RemoveEventListener ==
    /\ \E element \in Elements, event \in EventTypes, listener \in Callbacks :
          LET list  == session.listeners[element]
              index == FindIndex(list, event, listener)
          IN  /\ index # 0
              /\ session' = [session EXCEPT
                      !.attached = HostRemoveEventListener(@, element, event,
                                                           listener),
                      !.listeners[element] = Splice(list, index)]
    /\ ResUnchanged

\* The host runs a pending timeout: the wrapper deletes the id, then calls
\* the callback.
TimeoutFires ==
    /\ \E id \in session.hostTimers :
          session' = [session EXCEPT
              !.hostTimers = @ \ {id},
              !.timers = @ \ {id},
              !.ran = @ \cup {id},
              !.ranAfter = IF id \in session.before THEN @ \cup {id} ELSE @]
    /\ ResUnchanged

\* The host runs an interval's callback.
IntervalFires ==
    /\ \E id \in session.hostIntervals :
          /\ id \notin session.ran \/ (id \in session.before /\ id \notin session.ranAfter)
          /\ session' = [session EXCEPT
                 !.ran = @ \cup {id},
                 !.ranAfter = IF id \in session.before THEN @ \cup {id} ELSE @]
    /\ ResUnchanged

Cleanup ==
    /\ session.cleanups < MaxCleanups
    /\ session' = [session EXCEPT
           !.hostTimers = @ \ (session.timers \cup session.intervals),
           !.hostIntervals = @ \ (session.timers \cup session.intervals),
           !.timers = {}, !.intervals = {},
           !.attached = RemoveEvery(@, session.listeners, Elements),
           !.listeners = [e \in Elements |-> << >>],
           !.audioNodes = {}, !.observers = {},
           !.before = 1..(session.nextId - 1),
           !.cleanups = @ + 1]
    /\ ResUnchanged

ResNext ==
    \/ SetTimeout
    \/ SetInterval
    \/ AddEventListener
    \/ RegisterAudioNode
    \/ RegisterObserver
    \/ ClearTimeout
    \/ ClearInterval
    \/ RemoveEventListener
    \/ TimeoutFires
    \/ IntervalFires
    \/ Cleanup

SpecRes == ResInit /\ [][ResNext]_vars

\* ======================================================================
\* Pattern selection (patterns module: currentPatternIdx, selectedLevel)
\* ======================================================================
\* A pattern of the catalogue is named by its level and its position in
\* getPatternsForLevel(level); getCurrentPattern returns that pattern
\* flattened, which is written [level, position] here, and [] is << >>.
\* last, prevIdx, direct, streak and streakStart are history: the last
\* call, the index before it, whether setCurrentPatternIndex was ever
\* called, and the run of consecutive nextPattern calls with the index
\* the run started from.
Levels == {"beginner", "intermediate", "advanced", "expert"}

\* patterns.filter(p => p.level === level).length for the catalogue.
PatternCount(level) ==
    CASE level = "beginner"     -> 15
      [] level = "intermediate" -> 8
      [] level = "advanced"     -> 7
      [] OTHER                  -> 0

\* a % n of JavaScript for n > 0: the sign of the dividend.
JsMod(a, n) == IF a >= 0 THEN a % n ELSE -((-a) % n)

IndexInputs == {-2, 0, 3, 20}

GetCurrentPatternOf(level, idx) ==
    IF PatternCount(level) = 0 THEN << >>
    ELSE [level |-> level, position |-> JsMod(idx, PatternCount(level))]

NextIndexNoWrap(idx, n) == idx + 1

NextIndex(idx, n) == JsMod(idx + 1, n)

PatternInit ==
    /\ AudioInit
    /\ latencyCompensator = GameCompensator
    /\ feed \in {CHOOSE s \in LearnSamples : TRUE}
    /\ session = [phase |-> "patterns",
                  selectedLevel |-> "beginner", currentPatternIdx |-> 0,
                  returned |-> "none", last |-> "load", prevIdx |-> 0,
                  direct |-> FALSE, streak |-> 0, streakStart |-> 0]

PatternUnchanged == UNCHANGED <<schedVars, latencyCompensator, feed>>

SetSelectedLevel ==
    /\ \E level \in Levels :
          session' = [session EXCEPT
              !.selectedLevel = level, !.currentPatternIdx = 0,
              !.returned = "none", !.last = "setSelectedLevel",
              !.prevIdx = session.currentPatternIdx, !.streak = 0]
    /\ PatternUnchanged

SetCurrentPatternIndex ==
    /\ \E index \in IndexInputs :
          session' = [session EXCEPT
              !.currentPatternIdx = index,
              !.returned = "none", !.last = "setCurrentPatternIndex",
              !.prevIdx = session.currentPatternIdx, !.streak = 0,
              !.direct = TRUE]
    /\ PatternUnchanged

GetCurrentPattern ==
    /\ session' = [session EXCEPT
           !.returned = GetCurrentPatternOf(session.selectedLevel,
                                            session.currentPatternIdx),
           !.last = "getCurrentPattern",
           !.prevIdx = session.currentPatternIdx, !.streak = 0]
    /\ PatternUnchanged

NextPattern ==
    /\ LET n     == PatternCount(session.selectedLevel)
           idx   == session.currentPatternIdx
           fresh == session.streak = 0 \/ session.streak = n
       IN  IF n = 0
           THEN session' = [session EXCEPT
                    !.returned = "undefined", !.last = "nextPattern",
                    !.prevIdx = idx, !.streak = 0]
           ELSE session' = [session EXCEPT
                    !.currentPatternIdx = NextIndex(idx, n),
                    !.returned = GetCurrentPatternOf(session.selectedLevel,
                                                     NextIndex(idx, n)),
                    !.last = "nextPattern", !.prevIdx = idx,
                    !.streak = IF fresh THEN 1 ELSE @ + 1,
                    !.streakStart = IF fresh THEN idx ELSE @]
    /\ PatternUnchanged

PatternNext ==
    \/ SetSelectedLevel
    \/ SetCurrentPatternIndex
    \/ GetCurrentPattern
    \/ NextPattern

SpecPattern == PatternInit /\ [][PatternNext]_vars

\* ======================================================================
\* Input listeners (startListening / stopListening, inputHandler.js)
\* ======================================================================
\* attached is the set of listeners on the document, each identified by
\* event type, callback and capture flag; the callbacks are the arrow
\* functions startListening creates, new ones at every call, written
\* <<event, generation>>.  activeListeners is the module's list.  events,
\* handled and lastHandlers are history: the events dispatched so far, the
\* handler calls per event type, the handler calls of the last event.
MaxListenCalls == 3

MaxDocumentEvents == 2

ListenedEvents == {"keydown", "keyup", "touchstart", "touchend"}

\* activeListeners.forEach(({element, event, listener}) =>
\*     element.removeEventListener(event, listener))
RECURSIVE RemoveActive(_, _, _)
RemoveActive(attached, active, i) ==
    IF i > Len(active) THEN attached
    ELSE RemoveActive(HostRemoveEventListener(attached, active[i].element,
                                              active[i].event, active[i].listener),
                      active, i + 1)

KeepsOldListeners(attached, active) == attached

\* startListening(): stopListening() comes first.
AttachedAfterStop(attached, active) == RemoveActive(attached, active, 1)

\* The four entries startListening stores, in its order.
NewListeners(generation) ==
    <<[element |-> "document", event |-> "keydown",
       listener |-> <<"keydown", generation>>],
      [element |-> "document", event |-> "keyup",
       listener |-> <<"keyup", generation>>],
      [element |-> "document", event |-> "touchstart",
       listener |-> <<"touchstart", generation>>],
      [element |-> "document", event |-> "touchend",
       listener |-> <<"touchend", generation>>]>>

\* document.addEventListener(event, listener, { passive: false })
AttachAll(attached, entries) ==
    attached \cup {[element |-> entries[i].element, event |-> entries[i].event,
                    listener |-> entries[i].listener, capture |-> FALSE] :
                       i \in 1..Len(entries)}

ListenInit ==
    /\ AudioInit
    /\ latencyCompensator = GameCompensator
    /\ feed \in {CHOOSE s \in LearnSamples : TRUE}
    /\ session = [phase |-> "listeners", initialised |-> FALSE,
                  activeListeners |-> << >>, attached |-> {},
                  generation |-> 0, events |-> 0,
                  handled |-> [e \in ListenedEvents |-> 0],
                  lastHandlers |-> 0, lastListening |-> FALSE]

InitInputHandler ==
    /\ ~session.initialised
    /\ session' = [session EXCEPT !.initialised = TRUE]
    /\ UNCHANGED <<schedVars, latencyCompensator, feed>>

StartListening ==
    /\ session.generation < MaxListenCalls
    /\ IF ~session.initialised
       THEN session' = [session EXCEPT !.generation = @ + 1]
       ELSE LET entries == NewListeners(session.generation + 1)
            IN  session' = [session EXCEPT
                    !.attached = AttachAll(AttachedAfterStop(@, session.activeListeners),
                                           entries),
                    !.activeListeners = entries,
                    !.generation = @ + 1]
    /\ UNCHANGED <<schedVars, latencyCompensator, feed>>

StopListening ==
    /\ session' = [session EXCEPT
           !.attached = RemoveActive(@, session.activeListeners, 1),
           !.activeListeners = << >>]
    /\ UNCHANGED <<schedVars, latencyCompensator, feed>>

\* The browser dispatches one event of the type on the document: every
\* listener attached for the type is called.
DispatchEvent ==
    /\ session.events < MaxDocumentEvents
    /\ \E event \in ListenedEvents :
          LET called == Cardinality({a \in session.attached : a.event = event})
          IN  session' = [session EXCEPT
                  !.events = @ + 1,
                  !.handled[event] = @ + called,
                  !.lastHandlers = called,
                  !.lastListening = session.activeListeners # << >>]
    /\ UNCHANGED <<schedVars, latencyCompensator, feed>>

ListenNext ==
    \/ InitInputHandler
    \/ StartListening
    \/ StopListening
    \/ DispatchEvent

SpecListen == ListenInit /\ [][ListenNext]_vars

\* ======================================================================
\* Scores and accuracy histories (js/modules/gameState.js)
\* ======================================================================
\* The arrays beatHitResults, beatHitResultsP1 and beatHitResultsP2 are
\* sequences whose element i + 1 is the entry of index i; "empty" is an
\* index never assigned (a hole of the JavaScript array, which length
\* counts and filter skips).  hits and multiEnded are history: the
\* recordHit calls of the game, the multiplayer games ended since the last
\* resetSession.
MaxHits == 2

MaxGamesEnded == 2

MaxScoredBeats == 2

HitResults == {"perfect", "good", "miss"}

\* array[beatIndex] = result
SetAt(array, beatIndex, result) ==
    [i \in 1..Max(Len(array), beatIndex + 1) |->
        IF i = beatIndex + 1 THEN result
        ELSE IF i <= Len(array) THEN array[i] ELSE "empty"]

\* array.filter(r => r === 'perfect' || r === 'good').length
AccurateHits(array) ==
    Cardinality({i \in 1..Len(array) : array[i] \in {"perfect", "good"}})

\* const points = result === 'perfect' ? 10 : result === 'good' ? 5 : 0
PointsOf(result) ==
    IF result = "perfect" THEN 10 ELSE IF result = "good" THEN 5 ELSE 0

\* const totalNotes = gameState.beatHitResults.length
TotalNotes(g, array) == Len(g.beatHitResults)

\* totalNotes > 0 ? Math.round(100 * hits / totalNotes) : 0
AccuracyOf(g, array) ==
    IF TotalNotes(g, array) > 0
    THEN MathRound(100 * AccurateHits(array), TotalNotes(g, array))
    ELSE 0

ScoreInit ==
    /\ AudioInit
    /\ latencyCompensator = GameCompensator
    /\ feed \in {CHOOSE s \in LearnSamples : TRUE}
    /\ session = [phase |-> "scores", mode |-> "single", isActive |-> FALSE,
                  score |-> 0, score1 |-> 0, score2 |-> 0,
                  beatHitResults |-> << >>, beatHitResultsP1 |-> << >>,
                  beatHitResultsP2 |-> << >>,
                  gamesPlayed |-> 0, cumulativeScore1 |-> 0,
                  cumulativeScore2 |-> 0,
                  accArray1 |-> << >>, accArray2 |-> << >>,
                  hits |-> 0, multiEnded |-> 0]

ScoreUnchanged == UNCHANGED <<schedVars, latencyCompensator, feed>>

SetGameMode ==
    /\ \E mode \in {"single", "multi"} :
          session' = [session EXCEPT !.mode = mode]
    /\ ScoreUnchanged

StartNewGame ==
    /\ session' = [session EXCEPT
           !.isActive = TRUE, !.score = 0, !.score1 = 0, !.score2 = 0,
           !.beatHitResults = << >>, !.beatHitResultsP1 = << >>,
           !.beatHitResultsP2 = << >>, !.hits = 0]
    /\ ScoreUnchanged

\* recordHit(result, beatIndex, player), with updateScore(points, player).
RecordHit ==
    /\ session.hits < MaxHits
    /\ \E result \in HitResults, beatIndex \in 0..(MaxScoredBeats - 1),
          player \in {1, 2} :
          LET g == [session EXCEPT !.hits = @ + 1]
          IN  session' =
                IF g.mode = "single"
                THEN [g EXCEPT !.beatHitResults = SetAt(@, beatIndex, result),
                               !.score = @ + PointsOf(result)]
                ELSE IF player = 1
                THEN [g EXCEPT !.beatHitResultsP1 = SetAt(@, beatIndex, result),
                               !.score1 = @ + PointsOf(result)]
                ELSE [g EXCEPT !.beatHitResultsP2 = SetAt(@, beatIndex, result),
                               !.score2 = @ + PointsOf(result)]
    /\ ScoreUnchanged

EndGame ==
    /\ session.gamesPlayed < MaxGamesEnded
    /\ LET g == [session EXCEPT !.isActive = FALSE, !.gamesPlayed = @ + 1]
       IN  session' =
             IF g.mode = "multi"
             THEN [g EXCEPT
                     !.cumulativeScore1 = @ + g.score1,
                     !.cumulativeScore2 = @ + g.score2,
                     !.accArray1 = Append(@, AccuracyOf(g, g.beatHitResultsP1)),
                     !.accArray2 = Append(@, AccuracyOf(g, g.beatHitResultsP2)),
                     !.multiEnded = @ + 1]
             ELSE g
    /\ ScoreUnchanged

ResetSession ==
    /\ session' = [session EXCEPT
           !.gamesPlayed = 0, !.cumulativeScore1 = 0, !.cumulativeScore2 = 0,
           !.accArray1 = << >>, !.accArray2 = << >>, !.multiEnded = 0]
    /\ ScoreUnchanged

ScoreNext ==
    \/ SetGameMode
    \/ StartNewGame
    \/ RecordHit
    \/ EndGame
    \/ ResetSession

SpecScore == ScoreInit /\ [][ScoreNext]_vars

\* ======================================================================
\* SimpleRhythmTracker (js/simple-timing.js)
\* ======================================================================
\* Times are ticks; a quotient that is not a whole number of ticks is
\* rounded to the nearest tick.  recordings counts the stopRecording calls
\* and returned is the value of the last one; its fields beats and taps
\* (the lengths of expectedBeats and recordedTaps at the call) and usedTaps
\* (the index, from 1, of the tap matched to each beat that was hit, in
\* beat order) are history.
MaxTrackerBeats == 2

MaxTrackerTaps == 2

MaxRecordings == 2

\* Values of performance.now() at startRecording, in ms.
RecordingStarts == {0, 5000}

\* Tap timestamps, in ms after the start of the recording.
TapOffsets == {100, 390, 760, 1000}

\* detectAudioLatency(): the default and Chrome on a Mac (250 * 0.9), in ms.
DetectedLatencies == {100, 225}

\* this.beatInterval = 60000 / bpm, with the constructor's default bpm = 100
TrackerBeatInterval == BeatIntervalOf(100)

\* this.tolerance = 300
TrackerTolerance == Ms(300)

\* The inner forEach of analyzePerformance: the unused taps within the
\* tolerance of expectedTime, and among them the first of least distance.
TapsInReach(taps, usedTaps, expectedTime) ==
    {i \in 1..Len(taps) :
        /\ i \notin usedTaps
        /\ Abs(taps[i] - expectedTime) < TrackerTolerance}

BestTap(taps, usedTaps, expectedTime) ==
    LET reach == TapsInReach(taps, usedTaps, expectedTime)
    IN  IF reach = {} THEN Null
        ELSE CHOOSE i \in reach :
               \A j \in reach :
                  \/ Abs(taps[i] - expectedTime) < Abs(taps[j] - expectedTime)
                  \/ /\ Abs(taps[i] - expectedTime) = Abs(taps[j] - expectedTime)
                     /\ i <= j

\* The outer forEach of analyzePerformance from beat beatIndex (from 1) on.
RECURSIVE MatchBeats(_, _, _, _, _)
MatchBeats(beats, taps, beatIndex, usedTaps, acc) ==
    IF beatIndex > Len(beats) THEN acc
    ELSE LET expectedTime == beats[beatIndex]
             bestTap == BestTap(taps, usedTaps, expectedTime)
         IN  IF bestTap # Null
             THEN MatchBeats(beats, taps, beatIndex + 1, usedTaps \cup {bestTap},
                     [acc EXCEPT
                        !.hits = @ + 1,
                        !.usedTaps = Append(@, bestTap),
                        !.results = Append(@,
                            [beat |-> beatIndex, hit |-> TRUE,
                             timing |-> taps[bestTap] - expectedTime,
                             accuracy |-> Abs(taps[bestTap] - expectedTime)])])
             ELSE MatchBeats(beats, taps, beatIndex + 1, usedTaps,
                     [acc EXCEPT
                        !.results = Append(@,
                            [beat |-> beatIndex, hit |-> FALSE,
                             timing |-> 0, accuracy |-> 0])])

RECURSIVE TimingSum(_)
TimingSum(results) ==
    IF results = << >> THEN 0
    ELSE (IF Head(results).hit THEN Head(results).timing ELSE 0)
         + TimingSum(Tail(results))

\* updateCompensation(results)
UpdateCompensation(t, results) ==
    LET hitResults == SelectSeq(results, LAMBDA r : r.hit)
        n == Len(hitResults)
        total == TimingSum(hitResults)
        \* adjustment = avgTiming * 0.5
        adjusted == t.audioLatencyCompensation + MathRound(total, 2 * n)
        history == Append(t.compensationHistory, adjusted)
    IN  IF n < 2 THEN t
        ELSE IF Abs(total) > Ms(50) * n
        THEN [t EXCEPT !.audioLatencyCompensation = adjusted,
                       !.compensationHistory =
                           IF Len(history) > 10 THEN Tail(history) ELSE history]
        ELSE t

\* return { hits: 0, misses: this.expectedBeats.length, results: [] }
NoTapsResults(t, matched) == << >>

\* analyzePerformance(): the tracker after it and the value it returns.
\* accuracy is Math.round(hits / expectedBeats.length * 100): NaN with no
\* expected beat, absent from the value returned for no taps.
AnalyzePerformance(t) ==
    LET blank == [hits |-> 0, usedTaps |-> << >>, results |-> << >>]
        matched == MatchBeats(t.expectedBeats, t.recordedTaps, 1, {}, blank)
        n == Len(t.expectedBeats)
        after == IF t.adaptiveCompensation /\ Len(matched.results) > 0
                 THEN UpdateCompensation(t, matched.results) ELSE t
    IN  IF Len(t.recordedTaps) = 0
        THEN [t EXCEPT !.returned =
                 [hits |-> 0, misses |-> n, accuracy |-> "undefined",
                  results |-> NoTapsResults(t, matched), usedTaps |-> << >>,
                  beats |-> n, taps |-> 0]]
        ELSE [after EXCEPT !.returned =
                 [hits |-> matched.hits, misses |-> n - matched.hits,
                  accuracy |-> IF n = 0 THEN "NaN"
                               ELSE MathRound(100 * matched.hits, n),
                  results |-> matched.results, usedTaps |-> matched.usedTaps,
                  beats |-> n, taps |-> Len(t.recordedTaps)]]

TrackerInit ==
    /\ AudioInit
    /\ latencyCompensator = GameCompensator
    /\ feed \in {CHOOSE s \in LearnSamples : TRUE}
    /\ \E latency \in DetectedLatencies :
          session = [phase |-> "tracker", isRecording |-> FALSE,
                     recordedTaps |-> << >>, expectedBeats |-> << >>,
                     startTime |-> 0,
                     audioLatencyCompensation |-> Ms(latency),
                     adaptiveCompensation |-> TRUE,
                     compensationHistory |-> << >>,
                     recordings |-> 0,
                     returned |-> [hits |-> 0, misses |-> 0,
                                   accuracy |-> "undefined",
                                   results |-> << >>, usedTaps |-> << >>,
                                   beats |-> 0, taps |-> 0]]

TrackerUnchanged == UNCHANGED <<schedVars, latencyCompensator, feed>>

SetAdaptiveCompensation ==
    /\ \E enabled \in BOOLEAN :
          session' = [session EXCEPT !.adaptiveCompensation = enabled]
    /\ TrackerUnchanged

StartRecording ==
    /\ \E started \in RecordingStarts :
          session' = [session EXCEPT !.isRecording = TRUE,
                                     !.recordedTaps = << >>,
                                     !.expectedBeats = << >>,
                                     !.startTime = Ms(started)]
    /\ TrackerUnchanged

\* recordTap(timestamp): nothing unless recording.
RecordTap ==
    /\ Len(session.recordedTaps) < MaxTrackerTaps
    /\ \E offset \in TapOffsets :
          LET timestamp == session.startTime + Ms(offset)
              tapTime == timestamp - session.startTime
          IN  session' = IF ~session.isRecording THEN session
                         ELSE [session EXCEPT !.recordedTaps = Append(@, tapTime)]
    /\ TrackerUnchanged

\* setExpectedBeats(numBeats, startDelay = 0)
SetExpectedBeats ==
    /\ \E numBeats \in 0..MaxTrackerBeats :
          session' = [session EXCEPT !.expectedBeats =
              [i \in 1..numBeats |->
                  0 + (i - 1) * TrackerBeatInterval
                    + session.audioLatencyCompensation]]
    /\ TrackerUnchanged

StopRecording ==
    /\ session.recordings < MaxRecordings
    /\ session' = AnalyzePerformance(
           [session EXCEPT !.isRecording = FALSE, !.recordings = @ + 1])
    /\ TrackerUnchanged

TrackerNext ==
    \/ SetAdaptiveCompensation
    \/ StartRecording
    \/ RecordTap
    \/ SetExpectedBeats
    \/ StopRecording

SpecTracker == TrackerInit /\ [][TrackerNext]_vars

\* ======================================================================
\* Properties
\* ======================================================================

\* ---- metronome --------------------------------------------------------

\* C1: while a wake is pending and BEAT_INTERVAL has not been changed since
\* startMetronome, expectedBeatTime = metronomeStartTime + (k+1)*BEAT_INTERVAL,
\* where k is the number of the last tick fired (sched.ticks = k + 1 ticks
\* have fired since the start), however late the callbacks ran.
C1_NoDrift ==
    (timers # {} /\ sched.fixed) =>
        expectedBeatTime = metronomeStartTime + sched.ticks * BEAT_INTERVAL

\* Four ticks have fired, one of them late, and the next wake is pending.
C1_Witness ==
    /\ timers # {}
    /\ sched.fixed
    /\ sched.late
    /\ sched.ticks >= 4

\* C2: once stopMetronome has returned no wake is pending and no tick fires
\* until the next startMetronome; and stopMetronome on a metronome that is
\* not running (metronomeTimer = null, as after a first stop) changes nothing.
C2_StopFinal ==
    [][ /\ (sched.stopped /\ sched'.stopped /\ sched'.starts = sched.starts) =>
               sched'.ticks = sched.ticks
        /\ sched'.stopped => (timers' = {} /\ metronomeTimer' = Null)
        /\ (StopMetronome /\ metronomeTimer = Null) =>
               UNCHANGED <<audioVars, timers, nextTimerId>> ]_vars

\* A running metronome was stopped, and the time at which its next tick was
\* due has passed.
C2_Witness ==
    /\ sched.stopped
    /\ sched.ticks >= 2
    /\ timers = {}
    /\ now > expectedBeatTime

\* ---- matcher ----------------------------------------------------------
Analyzed == session.phase = "analyzed"

Beats == QuarterNoteBeats(session.pattern)

AssignedTaps == {session.results[i].tapIndex : i \in 1..Len(session.results)} \ {0}

\* Tap k had not been assigned when beat i was visited and lies within
\* tolerance ms of the beat's expected time.
UnusedWithin(i, k, tolerance) ==
    /\ k \notin session.results[i].usedBefore
    /\ Abs(session.taps[k].time - session.results[i].expectedTime) <= Ms(tolerance)

\* C3: in a matching pass every tap is assigned to at most one beat: the
\* assigned indices are indices of taps, pairwise distinct, and no more than
\* the taps.
C3_TapUsedOnce ==
    Analyzed =>
        /\ \A i, j \in 1..Len(session.results) :
              (i # j /\ session.results[i].tapIndex # 0) =>
                  session.results[i].tapIndex # session.results[j].tapIndex
        /\ AssignedTaps \subseteq 1..Len(session.taps)
        /\ Cardinality(AssignedTaps) <= Len(session.taps)

\* A tap assigned to a beat is also within the tolerance of a later note
\* beat, which gets no tap.
C3_Witness ==
    /\ Analyzed
    /\ \E i, j \in 1..Len(session.results) :
          /\ i < j
          /\ session.results[i].tapIndex # 0
          /\ ~session.results[j].isAllRests
          /\ session.results[j].tapIndex = 0
          /\ Abs(session.taps[session.results[i].tapIndex].time
                 - session.results[j].expectedTime) <= Ms(300)

\* ---- compensator ------------------------------------------------------

\* C4: adaptiveOffset stays within [-200, 200].
C4_OffsetInRange ==
    /\ latencyCompensator.adaptiveOffset >= -200
    /\ latencyCompensator.adaptiveOffset <= 200

\* An adaptation was cut off at the lower end of the range.
C4_Witness ==
    /\ latencyCompensator.analyses >= 1
    /\ latencyCompensator.adaptiveOffset = -200

\* C5: the expected time the matcher gets from compensateExpectedTime for a
\* raw beat time is raw - (baseCompensation + adaptiveOffset) when the
\* compensator is enabled and raw itself when it is disabled.
C5_Compensate ==
    Analyzed =>
        \A i \in 1..Len(session.results) :
            LET raw == session.gameStartTime + (i - 1) * session.interval
                c   == session.before
            IN  session.results[i].expectedTime =
                    IF c.enabled
                    THEN raw - Ms(c.baseCompensation + c.adaptiveOffset)
                    ELSE raw

\* Beats were matched with an enabled compensator whose total is negative.
C5_Witness ==
    /\ Analyzed
    /\ Len(session.results) >= 2
    /\ session.before.enabled
    /\ session.before.baseCompensation + session.before.adaptiveOffset < 0

\* Every beat has a tap exactly at its compensated expected time.
ExactTaps ==
    \A i \in 1..Len(Beats) :
        \E k \in 1..Len(session.taps) :
            session.taps[k].time =
                CompensateExpectedTime(session.before,
                    session.gameStartTime + (i - 1) * session.interval)

\* C6 as stated: with a tap exactly at the compensated expected time of
\* every beat, every beat is perfect.
C6_AllPerfect ==
    (Analyzed /\ ExactTaps) =>
        \A i \in 1..Len(session.results) : session.results[i].result = "perfect"

\* C6, amended: with a tap exactly at the compensated expected time of
\* every beat, every beat that contains a note is perfect, and an all-rest
\* beat is perfect exactly when it was assigned no tap.
C6_NoteBeatsPerfect ==
    (Analyzed /\ ExactTaps) =>
        \A i \in 1..Len(session.results) :
            IF session.results[i].isAllRests
            THEN session.results[i].result = "perfect" <=> session.results[i].tapIndex = 0
            ELSE session.results[i].result = "perfect"

\* Three beats, each with its exact tap; one of them is a rest beat that took
\* its tap.
C6_Witness ==
    /\ Analyzed
    /\ ExactTaps
    /\ Len(session.results) = 3
    /\ \E i \in 1..3 : session.results[i].isAllRests /\ session.results[i].result = "miss"
    /\ \E i \in 1..3 : ~session.results[i].isAllRests /\ session.results[i].result = "perfect"

\* C7: with no taps the pass ends normally with one result per beat, miss
\* for a beat that contains a note and perfect for an all-rest beat.
C7_NoTaps ==
    (session.phase # "recorded" /\ session.taps = << >>) =>
        /\ Analyzed
        /\ Len(session.results) = Len(Beats)
        /\ \A i \in 1..Len(Beats) :
              /\ session.results[i].beat = i
              /\ session.results[i].result =
                     IF IsAllRests(Beats[i]) THEN "perfect" ELSE "miss"

\* A pass without taps over a pattern with a note beat and a rest beat.
C7_Witness ==
    /\ Analyzed
    /\ session.taps = << >>
    /\ \E i, j \in 1..Len(Beats) : IsAllRests(Beats[i]) /\ ~IsAllRests(Beats[j])

\* C8 as stated: a rest beat is miss exactly when an unused tap lies within
\* 150 ms of its compensated expected time, and perfect otherwise.
C8_RestMissIffTapNear ==
    Analyzed =>
        \A i \in 1..Len(session.results) :
            session.results[i].isAllRests =>
                session.results[i].result =
                    IF \E k \in 1..Len(session.taps) : UnusedWithin(i, k, 150)
                    THEN "miss" ELSE "perfect"

\* The rest-beat filter: the tap is attributed to a neighbouring note beat
\* (it is less than 200 ms from that beat's uncompensated time, or less than
\* 0.8 times its distance from the rest beat), or it is less than 100 ms from
\* another recorded tap.
Filtered(i, k) ==
    LET t    == session.taps[k].time
        d    == Abs(t - session.results[i].expectedTime)
        raw(j) == session.gameStartTime + (j - 1) * session.interval
        near(j) == /\ j \in 1..Len(session.results)
                   /\ ~session.results[j].isAllRests
                   /\ (Abs(t - raw(j)) * 10 < d * 8 \/ Abs(t - raw(j)) < Ms(200))
    IN  \/ near(i - 1)
        \/ near(i + 1)
        \/ \E m \in 1..Len(session.taps) :
              m # k /\ Abs(t - session.taps[m].time) < Ms(100)

\* C8, amended: a rest beat is perfect and takes no tap when no unused tap
\* lies within 150 ms of its compensated expected time; it is miss exactly
\* when some unused tap within 150 ms passes the rest-beat filter.
C8_RestMissIffUnfilteredTapNear ==
    Analyzed =>
        \A i \in 1..Len(session.results) :
            session.results[i].isAllRests =>
                /\ (session.results[i].result = "miss") <=>
                       \E k \in 1..Len(session.taps) :
                           UnusedWithin(i, k, 150) /\ ~Filtered(i, k)
                /\ (session.results[i].result = "perfect") <=>
                       session.results[i].tapIndex = 0
                /\ session.results[i].result \in {"perfect", "miss"}

\* A rest beat stayed perfect with an unused tap 200 ms from it, another
\* rest beat became miss.
C8_Witness ==
    /\ Analyzed
    /\ \E i \in 1..Len(session.results) :
          /\ session.results[i].isAllRests
          /\ session.results[i].result = "perfect"
          /\ \E k \in 1..Len(session.taps) :
                UnusedWithin(i, k, 200) /\ ~UnusedWithin(i, k, 150)
    /\ \E i \in 1..Len(session.results) :
          session.results[i].isAllRests /\ session.results[i].result = "miss"

\* n samples, each 80 ms late and accurate, were accepted by a compensator
\* that was new or just reset, and nothing else was done to it.
FreshRun80(n) ==
    /\ latencyCompensator.pristine
    /\ latencyCompensator.accepted = n
    /\ Len(latencyCompensator.tapHistory) = n
    /\ \A k \in 1..n :
          latencyCompensator.tapHistory[k] = [difference |-> Ms(80), wasAccurate |-> TRUE]

\* C9 as stated: after 20 such samples adaptiveOffset = -round(80*0.3) = -24.
C9_After20Is24 ==
    FreshRun80(20) => latencyCompensator.adaptiveOffset = -24

\* C9, amended: adaptiveOffset is -24 after the 10th such sample and up to
\* the 19th, and -48 after the 20th (the analysis runs at the 10th and at the
\* 20th sample, and each run subtracts 24).
C9_After20Is48 ==
    /\ FreshRun80(20) => latencyCompensator.adaptiveOffset = -48
    /\ \A n \in 10..19 : FreshRun80(n) => latencyCompensator.adaptiveOffset = -24
    /\ \A n \in 0..9 : FreshRun80(n) => latencyCompensator.adaptiveOffset = 0

C9_Witness == FreshRun80(20)

\* C11: the history never holds more than 50 samples and is always the most
\* recent min(n, 50) of the n accepted samples, in arrival order.
C11_HistoryIsRecent ==
    /\ Len(latencyCompensator.tapHistory) <= maxHistory
    /\ Len(latencyCompensator.arrivals) = latencyCompensator.accepted
    /\ Len(latencyCompensator.tapHistory) = Min(latencyCompensator.accepted, maxHistory)
    /\ latencyCompensator.tapHistory = LastN(latencyCompensator.arrivals, maxHistory)

\* Two samples were accepted with the history full, and the samples held are
\* not all alike.
C11_Witness ==
    /\ latencyCompensator.accepted = maxHistory + 2
    /\ Len(latencyCompensator.tapHistory) = maxHistory
    /\ latencyCompensator.tapHistory[1] # latencyCompensator.tapHistory[maxHistory]

\* C12: setManualCompensation(ms) leaves baseCompensation = ms and
\* adaptiveOffset = 0 and switches learning off; while learning is off no
\* step changes the history or adaptiveOffset or runs an adaptation, and
\* learning comes back on only by resetLearning or calibrateFromExternalTest.
C12_ManualStopsLearning ==
    [][ /\ SetManualCompensation =>
              /\ latencyCompensator'.baseCompensation \in ManualInputs
              /\ latencyCompensator'.adaptiveOffset = 0
              /\ ~latencyCompensator'.learningMode
        /\ (~latencyCompensator.learningMode /\ ~latencyCompensator'.learningMode) =>
              /\ latencyCompensator'.tapHistory = latencyCompensator.tapHistory
              /\ latencyCompensator'.adaptiveOffset = 0
              /\ latencyCompensator'.analyses = latencyCompensator.analyses
              /\ latencyCompensator'.accepted = latencyCompensator.accepted
        /\ (~latencyCompensator.learningMode /\ latencyCompensator'.learningMode) =>
              (ResetLearning \/ CalibrateFromExternalTest) ]_vars

\* After an adaptation the compensation was set by hand, and a learnFromTap
\* call made since then was ignored.
C12_Witness ==
    /\ ~latencyCompensator.learningMode
    /\ latencyCompensator.ignored
    /\ latencyCompensator.baseCompensation \in ManualInputs
    /\ latencyCompensator.adaptiveOffset = 0
    /\ latencyCompensator.analyses >= 1
    /\ Len(latencyCompensator.tapHistory) >= 10

\* C10: analyzeAndAdapt has run exactly once for every 10 samples accepted
\* (at the 10th, 20th, ... sample and at no other).
C10_AnalysisEveryTenth ==
    latencyCompensator.analyses = latencyCompensator.accepted \div 10

\* ---- beat grouping -----------------------------------------------------

\* The nominal duration of an element in eighths of a quarter-beat: whole 4,
\* half 2, quarter 1, eighth 0.5, sixteenth 0.25 quarter-beats, times 1.5
\* when dotted.
NominalDuration(element) ==
    LET base == CASE element.type = "whole"     -> 32
                  [] element.type = "half"      -> 16
                  [] element.type = "quarter"   -> 8
                  [] element.type = "eighth"    -> 4
                  [] element.type = "sixteenth" -> 2
    IN  IF element.dotted THEN (3 * base) \div 2 ELSE base

RECURSIVE NominalSum(_)
NominalSum(elements) ==
    IF elements = << >> THEN 0
    ELSE NominalDuration(Head(elements)) + NominalSum(Tail(elements))

Grouped == session.phase = "grouped"

Undotted == \A k \in 1..Len(session.pattern) : ~session.pattern[k].dotted

\* C13: for a pattern of undotted whole, half, quarter, eighth and sixteenth
\* elements, every beat of the grouping but the last has durations that sum
\* to exactly one quarter-beat.
C13_BeatsSumToOne ==
    (Grouped /\ Undotted) =>
        \A i \in 1..(Len(session.quarterNoteBeats) - 1) :
            NominalSum(session.quarterNoteBeats[i]) = 8

\* C14: every element is charged its nominal duration, dots included: a
\* beat closes at the first element with which the nominal durations reach
\* one quarter-beat, and its expectedDuration is BEAT_INTERVAL times the
\* nominal durations of its elements.
C14_NominalDurationCharged ==
    Grouped =>
        \A i \in 1..Len(session.quarterNoteBeats) :
            LET elements == session.quarterNoteBeats[i]
                n        == Len(elements)
            IN  /\ NominalSum(SubSeq(elements, 1, n - 1)) < 8
                /\ i < Len(session.quarterNoteBeats) => NominalSum(elements) >= 8
                /\ 8 * session.expectedDuration[i] =
                       session.interval * NominalSum(elements)

\* ---- metronome: failures and restarts ----------------------------------

\* C15: a click sound that fails during a tick does not stop the metronome:
\* after the failing tick the next wake is pending.
C15_SoundFailureKeepsTicking ==
    sched.failure = "sound" => \E t \in timers : t.id = metronomeTimer

C20_FailedStartIsAtomic ==
    [][ (sched'.starts = sched.starts + 1 /\ sched'.failure \in {"clock", "timer"}) =>
            UNCHANGED <<metronomeStartTime, expectedBeatTime, metronomeBeat,
                        metronomeTimer>> ]_vars

\* ---- input handler and recording window --------------------------------

GameIndexes == 1..Len(session.games)

TapsOfPlayer(taps, player) == SelectSeq(taps, LAMBDA tap : tap.player = player)

Statuses(results) == [i \in 1..Len(results) |-> results[i].result]

\* C16: in multiplayer mode the beat results of an analysed game are those
\* the matcher gives for a player's own taps alone, whatever the other
\* player tapped.
C16_PlayersIndependent ==
    session.mode = "multi" =>
        \A k \in GameIndexes :
            LET game == session.games[k]
            IN  (game.step = "done" /\ game.startUsed # 0) =>
                    \A player \in {1, 2} :
                        Statuses(game.results) =
                            Statuses(MatchResults(game.before, game.pattern,
                                                  TapsOfPlayer(game.recordedTaps, player),
                                                  game.startUsed, BEAT_INTERVAL))

KeyDownStep ==
    /\ session'.events = session.events + 1
    /\ session.physical \subseteq session'.physical

KeyUpStep ==
    /\ session'.events = session.events + 1
    /\ session'.physical # session.physical
    /\ session'.physical \subseteq session.physical

KeysOfMode(mode) == IF mode = "single" THEN {" "} ELSE {"a", "Enter"}

\* The end of the 4-beat count-in of a game and the trackBeat call of its
\* last scoring beat, counted from the call of startProperGame.
CountInEnd(game) == game.clicked + 4 * BEAT_INTERVAL

LastBeatCall(game) ==
    game.clicked + (4 + Len(QuarterNoteBeats(game.pattern))) * BEAT_INTERVAL

\* C17: a key-down appends a tap only when recording is on, and a press of a
\* key of the mode made while recording is on is appended; nothing else
\* appends; recording is on only between the completion of the 4-beat
\* count-in of the game whose taps are recorded and the trackBeat call of
\* its last beat, so every tap handed to the matcher was made in that
\* window.
C17_RecordedIffRecording ==
    /\ [](/\ session.isRecording =>
                /\ session.current # 0
                /\ now >= CountInEnd(session.games[session.current])
                /\ now <= LastBeatCall(session.games[session.current])
          /\ \A k \in GameIndexes :
                \A i \in 1..Len(session.games[k].recordedTaps) :
                    /\ session.games[k].recordedTaps[i].time >= CountInEnd(session.games[k])
                    /\ session.games[k].recordedTaps[i].time <= LastBeatCall(session.games[k]))
    /\ [][ LET cur   == session.current
               added == {k \in GameIndexes : Len(session'.games[k].recordedTaps)
                                                 > Len(session.games[k].recordedTaps)}
           IN  /\ \A k \in GameIndexes :
                     Len(session'.games[k].recordedTaps) >= Len(session.games[k].recordedTaps)
               /\ added # {} =>
                     /\ KeyDownStep
                     /\ session.isRecording
                     /\ added = {cur}
                     /\ Len(session'.games[cur].recordedTaps)
                            = Len(session.games[cur].recordedTaps) + 1
                     /\ session'.games[cur].recordedTaps[
                            Len(session'.games[cur].recordedTaps)].time = now
               /\ (/\ KeyDownStep
                   /\ session.isRecording
                   /\ \E key \in KeysOfMode(session.mode) :
                         session'.physical = session.physical \cup {key}
                         /\ key \notin session.physical) =>
                     added = {cur} ]_vars

PlayerOfKey(key) == IF key = "Enter" THEN 2 ELSE 1

\* The recorded taps of a player that are still open, as <<game, index>>.
OpenTaps(player) ==
    {p \in GameIndexes \X (1..MaxKeyEvents + 1) :
        /\ p[2] <= Len(session.games[p[1]].recordedTaps)
        /\ p[2] \in OpenTapsOf(session.games[p[1]].recordedTaps, player)}

\* Of a set of taps, those recorded last.
LastRecorded(open) ==
    {p \in open :
        /\ \A q \in open : session.games[q[1]].recordedTaps[q[2]].time
                               <= session.games[p[1]].recordedTaps[p[2]].time
        /\ \A q \in open : q[1] = p[1] => q[2] <= p[2]}

\* C18: a key release changes at most one recorded tap, the most recently
\* recorded still-open tap of the releasing player, which gets endTime = the
\* release time, duration = endTime - startTime and isComplete; the release
\* of a held key of the mode does complete that tap; and no step ever
\* changes a completed tap or removes a tap.
C18_ReleaseCompletesLastOpenTap ==
    [][ /\ \A k \in GameIndexes :
              LET taps  == session.games[k].recordedTaps
                  taps1 == session'.games[k].recordedTaps
              IN  /\ Len(taps1) >= Len(taps)
                  /\ \A i \in 1..Len(taps) :
                        /\ taps[i].isComplete => taps1[i] = taps[i]
                        /\ taps1[i] # taps[i] => KeyUpStep
        /\ KeyUpStep =>
              \E key \in session.physical \ session'.physical :
                  LET open == OpenTaps(PlayerOfKey(key))
                  IN  /\ \A k \in GameIndexes :
                            LET taps  == session.games[k].recordedTaps
                                taps1 == session'.games[k].recordedTaps
                            IN  /\ Len(taps1) = Len(taps)
                                /\ \A i \in 1..Len(taps) :
                                      taps1[i] # taps[i] =>
                                          /\ <<k, i>> \in LastRecorded(open)
                                          /\ taps1[i] = [taps[i] EXCEPT
                                                 !.endTime = now,
                                                 !.duration = now - taps[i].startTime,
                                                 !.isComplete = TRUE]
                      /\ (key \in KeysOfMode(session.mode) /\ open # {}) =>
                            \E p \in LastRecorded(open) :
                                session'.games[p[1]].recordedTaps[p[2]].isComplete ]_vars

\* ---- starting a game on an empty pattern --------------------------------

\* C21: when the current pattern has no scoring beat, a call of
\* startProperGame is rejected: the game is not made active, no game is set
\* up, the metronome is not started and has no pending tick, and recording
\* is never on.
C21_EmptyPatternRejected ==
    QuarterNoteBeats(session.pattern) = << >> =>
        /\ ~session.isActive
        /\ session.games = << >>
        /\ sched.starts = 0
        /\ timers = {}
        /\ ~session.isRecording

\* ---- the anchor of the metronome ----------------------------------------

\* C22: only a call of startMetronome changes metronomeStartTime: ticks,
\* stopMetronome, setBeatInterval and the passing of time leave it as it
\* is; and getBeatTime(n) is metronomeStartTime + n * BEAT_INTERVAL for every
\* n: getBeatTime(0) is the anchor and consecutive beats are BEAT_INTERVAL
\* apart.
C22_AnchorFixedBetweenStarts ==
    /\ [](/\ GetBeatTime(0) = metronomeStartTime
          /\ \A n \in 0..MaxBeatIndex :
                /\ GetBeatTime(n) = metronomeStartTime + n * BEAT_INTERVAL
                /\ GetBeatTime(n + 1) - GetBeatTime(n) = BEAT_INTERVAL)
    /\ [][ metronomeStartTime' # metronomeStartTime =>
               /\ sched'.starts = sched.starts + 1
               /\ metronomeStartTime' = now ]_vars

\* Since the last start a tick has fired from the timer, the interval has
\* been changed and the metronome has been stopped, some time after the
\* start.
C22_Witness ==
    /\ sched.starts >= 1
    /\ sched.ticks >= 2
    /\ ~sched.fixed
    /\ sched.stopped
    /\ metronomeStartTime > 0
    /\ now > metronomeStartTime
    /\ GetBeatTime(2) = metronomeStartTime + 2 * BEAT_INTERVAL

\* ---- classification of a matched tap -------------------------------------

\* checkTapTimingWithLeeway(tapTime, expectedTime, beatIndex) with the
\* default tolerance, while real-time tracking is on.
CheckTapTimingWithLeeway(tapTime, expectedTime, beatIndex) ==
    LET perfect  == IF beatIndex = 0 THEN Ms(150) ELSE Ms(70)
        good     == IF beatIndex = 0 THEN Ms(300) ELSE Ms(170)
        timeDiff == Abs(tapTime - expectedTime)
    IN  IF timeDiff <= perfect THEN "perfect"
        ELSE IF timeDiff <= good THEN "good"
        ELSE "miss"

\* C23: the result of a note beat with a matched tap is the class of the
\* tap's absolute timing error in the tolerance window: perfect up to 70 ms
\* and good up to 170 ms on an interior beat, perfect up to 150 ms and good up
\* to 300 ms on the first beat, and close or miss beyond.
C23_ClassifiedByToleranceWindow ==
    Analyzed =>
        \A i \in 1..Len(session.results) :
            LET r     == session.results[i]
                class == CheckTapTimingWithLeeway(r.actualTime, r.expectedTime, i - 1)
            IN  (~r.isAllRests /\ r.tapIndex # 0) =>
                    /\ r.result = "perfect" <=> class = "perfect"
                    /\ r.result = "good" <=> class = "good"
                    /\ r.result \in {"close", "miss"} <=> class = "miss"

\* ---- normalizeBar ---------------------------------------------------------

Normalized == session.phase = "normalized"

\* The elements of out from index k + 1 on are rests, none longer than the one
\* before it, each the longest of quarter, eighth and sixteenth that fits in
\* what remains of the bar.
LongestFirstRests(out, k) ==
    \A j \in k + 1..Len(out) :
        LET remaining == 32 - NominalSum(SubSeq(out, 1, j - 1))
        IN  /\ out[j].rest
            /\ out[j] = IF remaining >= 8 THEN PadRest("quarter")
                        ELSE IF remaining >= 4 THEN PadRest("eighth")
                        ELSE PadRest("sixteenth")

\* C24: normalizeBar returns a bar of exactly 4 quarter-beats (32 eighths of
\* a beat): a prefix of the input, in order, that stops only where the bar is
\* full or the next element would overflow it, followed by rests chosen
\* longest-fitting first.
C24_NormalizedBarIsFourBeats ==
    Normalized =>
        /\ NominalSum(session.out) = 32
        /\ \E k \in 0..Len(session.bar) :
              /\ k <= Len(session.out)
              /\ SubSeq(session.out, 1, k) = SubSeq(session.bar, 1, k)
              /\ k < Len(session.bar) =>
                    \/ NominalSum(SubSeq(session.bar, 1, k)) = 32
                    \/ NominalSum(SubSeq(session.bar, 1, k + 1)) > 32
              /\ LongestFirstRests(session.out, k)

\* ---- the beat counter of the metronome -----------------------------------

\* C25: counting the ticks since the last startMetronome (the metronome
\* element being set), the beat counter is in 0..3 and is the number of ticks
\* fired modulo 4, and the last tick, tick number sched.ticks - 1, asked for
\* the accent exactly when its number is a multiple of 4.
C25_BeatCountsTicks ==
    (sched.starts >= 1 /\ ~sched.silent) =>
        /\ metronomeBeat \in 0..3
        /\ metronomeBeat = sched.ticks % 4
        /\ sched.ticks >= 1 => (sched.accent <=> (sched.ticks - 1) % 4 = 0)

\* ---- resource manager ---------------------------------------------------

\* C26: after cleanup() no timeout or interval callback registered through
\* the manager before the call runs, every listener registered through the
\* manager is off its element, and getStats() reports 0 for timers,
\* intervals, listeners, audio nodes and observers.
C26_CleanupReleasesEverything ==
    /\ [](session.ranAfter = {})
    /\ [][ session'.cleanups # session.cleanups =>
               /\ session'.attached = {}
               /\ GetStats(session') = [timers |-> 0, intervals |-> 0,
                                        listeners |-> 0, audioNodes |-> 0,
                                        observers |-> 0] ]_vars

\* ---- pattern selection --------------------------------------------------

\* C27: when only setSelectedLevel, nextPattern (and the read
\* getCurrentPattern) have been called, the index is in 0..n-1 for a level
\* of n >= 1 patterns; nextPattern moves it by one modulo n, and n
\* consecutive calls come back to the pattern they started from;
\* setSelectedLevel puts it at 0; for a level without patterns
\* getCurrentPattern returns [] and nextPattern leaves the index alone.
C27_IndexWithinLevel ==
    LET n   == PatternCount(session.selectedLevel)
        idx == session.currentPatternIdx
    IN  ~session.direct =>
            /\ n >= 1 => idx \in 0..(n - 1)
            /\ (session.last = "nextPattern" /\ n >= 1) =>
                   /\ idx = (session.prevIdx + 1) % n
                   /\ session.returned = [level |-> session.selectedLevel,
                                          position |-> idx]
            /\ (session.streak = n /\ n >= 1) => idx = session.streakStart
            /\ session.last = "setSelectedLevel" => idx = 0
            /\ (session.last = "getCurrentPattern" /\ n = 0) =>
                   session.returned = << >>
            /\ (session.last = "nextPattern" /\ n = 0) =>
                   idx = session.prevIdx

C27_Witness ==
    /\ ~session.direct
    /\ session.selectedLevel = "advanced"
    /\ session.last = "nextPattern"
    /\ session.streak = PatternCount("advanced")
    /\ session.streakStart = 3
    /\ session.currentPatternIdx = 3

\* ---- games: timer chains ------------------------------------------------

\* The games whose trackBeat chain has a timeout pending.
LiveChains ==
    {k \in 1..Len(session.games) : session.games[k].step = "trackBeat"}

\* C29: at any time at most one trackBeat timer chain is live; a Start
\* Game click during the count-in or the recording of a game does not add
\* a second chain next to the first.
C29_SingleTrackBeatChain == Cardinality(LiveChains) <= 1

\* The games the analysis has run for.
DoneGames ==
    {k \in 1..Len(session.games) : session.games[k].step = "done"}

\* C28: a game of a pattern with at least one scoring beat ends: recording
\* is switched off after the tracking callback of the last beat, then the
\* metronome and the input listening are stopped, endGame is called and
\* the matcher runs once for the game, with recording off when it runs.
C28_GameEndsRecordingOff ==
    /\ \A k \in DoneGames :
          Len(QuarterNoteBeats(session.games[k].pattern)) >= 1 =>
              /\ ~session.games[k].recordingAtAnalysis
              /\ Len(session.games[k].results)
                     = Len(QuarterNoteBeats(session.games[k].pattern))
    /\ (DoneGames # {} /\ LiveChains = {}) =>
              /\ ~session.isRecording
              /\ ~session.listening
              /\ ~session.isActive
              /\ metronomeTimer = Null

\* ---- matcher: the choice of the tap ---------------------------------------

AbsoluteError(i, k) == Abs(session.taps[k].time - session.results[i].expectedTime)

\* The unused taps within the 300 ms of a note beat, for beat i.
NoteCandidates(i) ==
    {k \in 1..Len(session.taps) :
        /\ k \notin session.results[i].usedBefore
        /\ AbsoluteError(i, k) <= Ms(300)}

\* The score of tap k for beat i: 25 ms off when k lies after every tap
\* already assigned.
ScoreFor(i, k) ==
    IF \A u \in session.results[i].usedBefore : k > u
    THEN AbsoluteError(i, k) - Ms(25)
    ELSE AbsoluteError(i, k)

\* Tap k comes before tap j in the matcher's order for beat i.
ComesBefore(i, k, j) ==
    \/ ScoreFor(i, k) < ScoreFor(i, j)
    \/ ScoreFor(i, k) = ScoreFor(i, j) /\ k <= j

\* C30: a note beat takes, among the unused taps within its tolerance, the
\* one of lowest score (absolute error, less 25 ms for a tap recorded after
\* every tap already assigned), the earliest recorded on equal scores; the
\* tap is then marked used; a beat without candidate takes no tap.
C30_LowestScoreWins ==
    Analyzed =>
        \A i \in 1..Len(session.results) :
            LET r == session.results[i]
            IN  ~r.isAllRests =>
                  /\ NoteCandidates(i) = {} => r.tapIndex = 0
                  /\ NoteCandidates(i) # {} =>
                        /\ r.tapIndex \in NoteCandidates(i)
                        /\ \A k \in NoteCandidates(i) : ComesBefore(i, r.tapIndex, k)
                  /\ i < Len(session.results) =>
                        session.results[i + 1].usedBefore
                            = r.usedBefore \cup (IF r.tapIndex = 0 THEN {}
                                                 ELSE {r.tapIndex})

\* A note beat chose the earlier of two candidates of equal score, a note
\* beat chose the nearer of two candidates of different score, and a note
\* beat had no candidate.
C30_Witness ==
    /\ Analyzed
    /\ \E i \in 1..Len(session.results) :
          /\ ~session.results[i].isAllRests
          /\ \E k \in NoteCandidates(i) :
                /\ k > session.results[i].tapIndex
                /\ ScoreFor(i, k) = ScoreFor(i, session.results[i].tapIndex)
    /\ \E i \in 1..Len(session.results) :
          /\ ~session.results[i].isAllRests
          /\ session.results[i].usedBefore # {}
          /\ \E k \in NoteCandidates(i) :
                ScoreFor(i, k) > ScoreFor(i, session.results[i].tapIndex)
    /\ \E i \in 1..Len(session.results) :
          /\ ~session.results[i].isAllRests
          /\ NoteCandidates(i) = {}
          /\ session.results[i].tapIndex = 0

\* ---- matcher: the learning feedback -------------------------------------

\* The results of the pass that have a matched tap, in beat order.
MatchedResults == SelectSeq(session.results, LAMBDA r : r.tapIndex # 0)

\* The samples the pass hands to learnFromTap, by the claim.
SamplesOfPass ==
    [j \in 1..Len(MatchedResults) |->
        [difference  |-> MatchedResults[j].actualTime - MatchedResults[j].expectedTime,
         wasAccurate |-> MatchedResults[j].result \in {"perfect", "good"}]]

\* C31: after a matching pass learnFromTap has been called once for each
\* result with a matched tap, in beat order, with the tap time, the
\* compensated expected time and accurate exactly for perfect and good; the
\* calls come after the matching, so every beat of the pass was compensated
\* by the value in force before the pass.
C31_FeedbackAfterMatching ==
    Analyzed =>
        /\ latencyCompensator.arrivals = session.before.arrivals \o SamplesOfPass
        /\ \A i \in 1..Len(session.results) :
              session.results[i].expectedTime
                  = session.gameStartTime + (i - 1) * session.interval
                    - Ms(GetCurrentCompensation(session.before))

\* A pass fed an accurate and an inaccurate sample, and the feedback changed
\* the compensation in force.
C31_Witness ==
    /\ Analyzed
    /\ Len(MatchedResults) >= 2
    /\ \E j \in 1..Len(SamplesOfPass) : SamplesOfPass[j].wasAccurate
    /\ \E j \in 1..Len(SamplesOfPass) : ~SamplesOfPass[j].wasAccurate
    /\ GetCurrentCompensation(latencyCompensator)
           # GetCurrentCompensation(session.before)

\* ---- compensator: one analysis ------------------------------------------

\* Number of accurate samples of s, and the sum of their errors (ticks).
RECURSIVE AccurateCount(_)
AccurateCount(s) ==
    IF s = << >> THEN 0
    ELSE (IF Head(s).wasAccurate THEN 1 ELSE 0) + AccurateCount(Tail(s))

RECURSIVE AccurateErrorSum(_)
AccurateErrorSum(s) ==
    IF s = << >> THEN 0
    ELSE (IF Head(s).wasAccurate THEN Head(s).difference ELSE 0)
         + AccurateErrorSum(Tail(s))

\* C32: an analysis leaves adaptiveOffset as it is when fewer than 5 of the
\* last 20 samples are accurate or the mean error of the accurate ones is
\* at most 30 ms in absolute value; otherwise it subtracts
\* round(0.3 * mean error) and clamps to [-200, 200]; the samples flagged
\* inaccurate are not in the mean.
C32_AnalysisAdaptsFromAccurate ==
    [][ latencyCompensator'.analyses = latencyCompensator.analyses + 1 =>
          LET recent == LastN(latencyCompensator'.tapHistory, 20)
              n      == AccurateCount(recent)
              sum    == AccurateErrorSum(recent)
              old    == latencyCompensator.adaptiveOffset
              new    == latencyCompensator'.adaptiveOffset
          IN  IF n < 5 \/ Abs(sum) <= Ms(30) * n
              THEN new = old
              ELSE new = Max(-200, Min(200, old - MathRound(3 * sum,
                                                            10 * TicksPerMs * n)))
      ]_vars

\* An analysis has just adapted the offset from a window that holds
\* inaccurate samples besides at least 5 accurate ones.
C32_Witness ==
    LET recent == LastN(latencyCompensator.tapHistory, 20)
    IN  /\ latencyCompensator.analyses >= 1
        /\ Len(latencyCompensator.tapHistory) % 10 = 0
        /\ latencyCompensator.learningMode
        /\ AccurateCount(recent) >= 5
        /\ AccurateCount(recent) < Len(recent)
        /\ latencyCompensator.adaptiveOffset \notin {0, 200, -200}

\* ---- metronome: the state reported ---------------------------------------

\* getMetronomeState().isRunning
IsRunning == metronomeTimer # Null

\* C33: getMetronomeState().isRunning is true exactly when a wake of the
\* metronome is pending, after any startMetronome, stopMetronome and timer
\* callback, a callback that ended with an exception included.
C33_RunningIffWakePending == IsRunning <=> timers # {}

\* ---- compensator: switched off -------------------------------------------

\* The compensation setEnabled(true) would put in force.
CompensationWhenEnabled(c) == c.baseCompensation + c.adaptiveOffset

\* C34: while compensation is disabled a learnFromTap call does not change
\* adaptiveOffset, so that setEnabled(true) brings back the total
\* compensation that was in force when it was disabled.
C34_DisabledDoesNotLearn ==
    [][ (/\ ~latencyCompensator.enabled
         /\ latencyCompensator'.accepted = latencyCompensator.accepted + 1) =>
            /\ latencyCompensator'.adaptiveOffset = latencyCompensator.adaptiveOffset
            /\ CompensationWhenEnabled(latencyCompensator')
                   = CompensationWhenEnabled(latencyCompensator) ]_vars

\* ---- input listeners ------------------------------------------------------

ListenersFor(event) == {a \in session.attached : a.event = event}

\* C35: whatever startListening and stopListening calls were made on an
\* initialised handler, the document holds at most one handler per event
\* type, and none after stopListening; an event dispatched while listening
\* is handled exactly once, however often startListening was called.
C35_OneListenerPerEvent ==
    /\ \A event \in ListenedEvents : Cardinality(ListenersFor(event)) <= 1
    /\ session.activeListeners = << >> => session.attached = {}
    /\ session.events > 0 =>
           session.lastHandlers = IF session.lastListening THEN 1 ELSE 0

\* startListening was called three times in a row, and a key press was then
\* handled.
C35_Witness ==
    /\ session.initialised
    /\ session.generation = 3
    /\ session.activeListeners = NewListeners(3)
    /\ session.handled["keydown"] = 1
    /\ session.lastListening

\* ---- input handler: one tap per press -------------------------------------

\* C36: in multiplayer mode the keydown events that repeat while a player's
\* key is down record nothing: a press of the key gives one processTap call
\* if the game was active when it began, and a press gives none while the
\* game is not active, in either mode.
C36_OneTapPerPress ==
    /\ session.mode = "multi" =>
          \A key \in {"a", "Enter"} :
              key \in session.physical =>
                  session.pressTaps[key] = IF session.pressActive[key] THEN 1 ELSE 0
    /\ \A key \in session.physical :
          ~session.pressActive[key] => session.pressTaps[key] = 0

\* ---- accuracy histories ---------------------------------------------------

\* The beats recorded in an array, and the rounded percentage of them that
\* are perfect or good (0 when none is recorded).
RecordedBeats(array) == {i \in 1..Len(array) : array[i] # "empty"}

PercentAccurate(array) ==
    IF RecordedBeats(array) = {} THEN 0
    ELSE MathRound(100 * AccurateHits(array), Cardinality(RecordedBeats(array)))

\* C37: in multiplayer mode endGame appends to each player's accuracy
\* history the rounded percentage of the player's recorded beats that are
\* perfect or good (100 when all are perfect); both histories have one
\* entry per multiplayer game ended since the last resetSession.
C37_AccuracyPerPlayer ==
    /\ [](/\ Len(session.accArray1) = session.multiEnded
          /\ Len(session.accArray2) = session.multiEnded)
    /\ [][ session'.multiEnded = session.multiEnded + 1 =>
               /\ session'.accArray1[Len(session'.accArray1)]
                      = PercentAccurate(session.beatHitResultsP1)
               /\ session'.accArray2[Len(session'.accArray2)]
                      = PercentAccurate(session.beatHitResultsP2) ]_vars

\* ---- SimpleRhythmTracker ----------------------------------------------------

NoTapTwice(usedTaps) ==
    \A i, j \in 1..Len(usedTaps) : usedTaps[i] = usedTaps[j] => i = j

\* C38: for every list of recorded taps, the empty one included, the value
\* stopRecording returns has hits + misses equal to the number of expected
\* beats, no recorded tap matched to two beats, and a results list with
\* exactly one entry per expected beat.
C38_OneResultPerBeat ==
    session.recordings > 0 =>
        /\ session.returned.hits + session.returned.misses
               = session.returned.beats
        /\ NoTapTwice(session.returned.usedTaps)
        /\ Len(session.returned.results) = session.returned.beats

====
